---- MODULE Spec2Model ----
(***************************************************************************)
(* Semantic analysis of Sieve scripts in Archiveopteryx                    *)
(* (sieve/sieveproduction.cpp): SieveProduction, SieveArgument,            *)
(* SieveArgumentList, SieveCommand::parse and SieveTest::parse.            *)
(*                                                                         *)
(* A script is a tree of productions.  A production is identified by its   *)
(* path from the script (the root, <<>>):                                  *)
(*     command i of a script or block p      p \o <<i>>     (i >= 1)       *)
(*     the argument list of a command/test p p \o <<0>>                    *)
(*     the block of a command p              p \o <<-1>>                   *)
(*     argument k of an argument list p      p \o <<k>>     (k >= 1)       *)
(*     test j of an argument list p          p \o <<-j>>    (j >= 1)       *)
(* so that parent() is the path without its last element.  The mutable     *)
(* members of all productions (error, ihaveFailed, addedExtensions,        *)
(* parsed, the numbered arguments) live in one record, the heap, which     *)
(* the operators below thread through the analysis exactly as the C++      *)
(* code mutates the objects.                                               *)
(***************************************************************************)
EXTENDS Integers, Sequences, FiniteSets, TLC

VARIABLES
    script,       \* the top-level commands, as built by the generic parser
    heap,         \* the mutable members of every production
    pc,           \* "flag", "parse", "resolve" or "done": the driver's position
    next,         \* index of the next top-level command to analyse
    pass,         \* 1 during the first analysis, 2 during a repeated one
    firstErrors,  \* the error map left by the first analysis
    heapB,        \* a second analysis of the same script (larger supported set)
    lastCall      \* the last SieveProduction call made directly (API runs)

vars == <<script, heap, pc, next, pass, firstErrors, heapB, lastCall>>

(***************************************************************************)
(* Tree navigation.                                                        *)
(***************************************************************************)
Root == <<>>

ArgsOf(p) == Append(p, 0)

BlockOf(p) == Append(p, -1)

ArgAt(pl, k) == Append(pl, k)

TestAt(pl, j) == Append(pl, -j)

CommandAt(pb, i) == Append(pb, i)

\* SieveProduction::parent(); the script itself has none.
Parent(p) == SubSeq(p, 1, Len(p) - 1)

\* p, p->parent(), p->parent()->parent(), ... up to the script
Chain(p) == {SubSeq(p, 1, k) : k \in 0..Len(p)}

(***************************************************************************)
(* SieveArgument: a tag, a number or a string list (a null list pointer is *)
(* hasList = FALSE).                                                       *)
(***************************************************************************)
TagArg(t) == [tag |-> t, number |-> 0, hasList |-> FALSE, list |-> <<>>]

NumArg(n) == [tag |-> "", number |-> n, hasList |-> FALSE, list |-> <<>>]

ListArg(l) == [tag |-> "", number |-> 0, hasList |-> TRUE, list |-> l]

StrArg(s) == ListArg(<<s>>)

NoArguments == [a |-> <<>>, t |-> <<>>]

Arguments(as) == [a |-> as, t |-> <<>>]

Test(id, as, ts) == [identifier |-> id, arguments |-> [a |-> as, t |-> ts]]

Command(id, as) ==
    [identifier |-> id, arguments |-> [a |-> as, t |-> <<>>],
     hasBlock |-> FALSE, block |-> <<>>]

BlockCommand(id, ts, cs) ==
    [identifier |-> id, arguments |-> [a |-> <<>>, t |-> ts],
     hasBlock |-> TRUE, block |-> cs]

(***************************************************************************)
(* The heap.                                                               *)
(***************************************************************************)
\* EString::quoted(): the string in double quotes
Quoted(s) == "\"" \o s \o "\""

\* SieveProduction::supportedExtensions(), with the collations the server
\* knows (Collation::supported()) spelled out
supportedExtensions ==
    {"body", "comparator-i;octet", "comparator-i;ascii-casemap",
     "comparator-i;ascii-numeric", "copy", "date", "ereject", "envelope",
     "fileinto", "ihave", "imap4flags", "reject", "relational",
     "subaddress", "vacation"}

\* SieveProductionData / SieveArgumentData / SieveArgumentListData after
\* construction, for a tree whose productions are `nodes`: no error, no
\* ihave failure, no added extensions, nothing parsed, nothing numbered.
\* parser holds the productions on which setParser() has been called.
NewHeap(nodes, supp) ==
    [error       |-> <<>>,     \* production -> its non-empty error
     ihaveFailed |-> {},       \* productions with d->ihaveFailed
     added       |-> {},       \* <<production, extension>>: addedExtensions
     parsed      |-> {},       \* arguments with d->parsed
     n           |-> <<>>,     \* argument list -> d->n (argument indexes)
     require     |-> {},       \* commands with d->require
     parser      |-> nodes,    \* productions with d->parser set
     bad         |-> {},       \* the parser's bad productions
     needed      |-> {},       \* <<production, extension>> registered as needed
     supported   |-> supp,     \* the server's supported extensions
     visited     |-> {},       \* commands and tests on which parse() has run
     clock       |-> 0,        \* number of errors stored and failures marked
     errAt       |-> <<>>,     \* production -> clock when its error was stored
     failAt      |-> <<>>,     \* production -> clock when marked ihave-failed
     requireLog  |-> {}]       \* per analysed require: its parent's added
                               \* extensions before and after

\* SieveProduction::error()
Error(h, p) == IF p \in DOMAIN h.error THEN h.error[p] ELSE ""

\* SieveProduction::ihaveFailed()
IhaveFailed(h, p) == p \in h.ihaveFailed

\* SieveProduction::addedExtensions(), as a set
AddedExtensions(h, p) == {x[2] : x \in {y \in h.added : y[1] = p}}

\* SieveArgument::parsed()
Parsed(h, pa) == pa \in h.parsed

\* Some production on the parent chain of p (p included) is ihave-failed.
InFailedScope(h, p) == \E q \in Chain(p) : IhaveFailed(h, q)

\* Some production on the parent chain of p (p included) has added ext.
Declared(h, p, ext) == \E q \in Chain(p) : ext \in AddedExtensions(h, q)

\* SieveParser::rememberBadProduction
RememberBadProduction(h, p) == [h EXCEPT !.bad = @ \cup {p}]

\* SieveParser::rememberNeededExtension, keeping the production that needs it
RememberNeededExtension(h, p, ext) == [h EXCEPT !.needed = @ \cup {<<p, ext>>}]

\* A plausible slip: a second error replaces the first.
SetErrorOverwriting(h, p, e) ==
    LET Remember(stored) ==
            IF Error(stored, p) # "" /\ p \in stored.parser
            THEN RememberBadProduction(stored, p)
            ELSE stored
    IN  Remember(
            IF e = ""
            THEN [h EXCEPT !.error = [q \in (DOMAIN h.error) \ {p} |-> h.error[q]]]
            ELSE IF ~InFailedScope(h, p)
            THEN [h EXCEPT !.error = (p :> e) @@ @]
            ELSE h)

\* A plausible slip: the ihave-failed scope is not consulted.
SetErrorIgnoringIhave(h, p, e) ==
    LET Remember(stored) ==
            IF Error(stored, p) # "" /\ p \in stored.parser
            THEN RememberBadProduction(stored, p)
            ELSE stored
    IN  Remember(
            IF e = ""
            THEN [h EXCEPT !.error = [q \in (DOMAIN h.error) \ {p} |-> h.error[q]]]
            ELSE IF Error(h, p) = ""
            THEN [h EXCEPT !.error = (p :> e) @@ @,
                           !.clock = @ + 1,
                           !.errAt = (p :> h.clock) @@ @]
            ELSE h)

\* SieveProduction::setError
SetError(h, p, e) ==
    LET Remember(stored) ==
            IF Error(stored, p) # "" /\ p \in stored.parser
            THEN RememberBadProduction(stored, p)
            ELSE stored
    IN  Remember(
            IF e = ""
            THEN [h EXCEPT !.error = [q \in (DOMAIN h.error) \ {p} |-> h.error[q]]]
            ELSE IF Error(h, p) = ""
            THEN IF ~InFailedScope(h, p)
                 THEN [h EXCEPT !.error = (p :> e) @@ @,
                                !.clock = @ + 1,
                                !.errAt = (p :> h.clock) @@ @]
                 ELSE h
            ELSE h)

\* A plausible slip: attaching the parser never looks at the error.
SetParserOnly(h, p, attached) ==
    [h EXCEPT !.parser = IF attached THEN @ \cup {p} ELSE @ \ {p}]

\* SieveProduction::setParser; attached = FALSE is a null parser
SetParser(h, p, attached) ==
    LET Remember(stored) ==
            IF p \in stored.parser /\ Error(stored, p) # ""
            THEN RememberBadProduction(stored, p)
            ELSE stored
    IN  Remember([h EXCEPT !.parser = IF attached THEN @ \cup {p}
                                                  ELSE @ \ {p}])

\* A plausible slip: the extension is never registered.
RequireNothing(h, p, ext) == h

\* SieveProduction::require
Require(h, p, ext) ==
    IF Declared(h, p, ext)
    THEN h
    ELSE IF p \in h.parser THEN RememberNeededExtension(h, p, ext) ELSE h

\* SieveProduction::setIhaveFailed
SetIhaveFailed(h, p) ==
    [h EXCEPT !.ihaveFailed = @ \cup {p},
              !.clock = IF p \in h.ihaveFailed THEN @ ELSE @ + 1,
              !.failAt = IF p \in h.ihaveFailed THEN @ ELSE (p :> h.clock) @@ @]

\* A plausible slip: nothing is recorded.
AddExtensionsNoop(h, p, list) == h

\* SieveProduction::addExtensions; list is the set of names of the list
\* handed in (empty for a null pointer)
AddExtensions(h, p, list) ==
    IF list = {}
    THEN h
    ELSE LET already == UNION {AddedExtensions(h, q) : q \in Chain(p)}
         IN  [h EXCEPT !.added = @ \cup {<<p, x>> : x \in list \ already}]

\* SieveArgument::setParsed
SetParsed(h, pa, b) ==
    [h EXCEPT !.parsed = IF b THEN @ \cup {pa} ELSE @ \ {pa}]

\* SieveCommand::setRequirePermitted
SetRequirePermitted(h, p, b) ==
    [h EXCEPT !.require = IF b THEN @ \cup {p} ELSE @ \ {p}]

(***************************************************************************)
(* SieveArgument's shape assertions.                                       *)
(***************************************************************************)
\* SieveArgument::assertNumber
AssertNumber(h, pa, arg) ==
    IF arg.tag # ""
    THEN SetError(h, pa, "Expected a number here, not a tag")
    ELSE IF arg.hasList
    THEN SetError(h, pa, "Expected a number here, not a string or string list")
    ELSE h

\* SieveArgument::assertString
AssertString(h, pa, arg) ==
    IF arg.tag # ""
    THEN SetError(h, pa, "Expected a string here, not a tag")
    ELSE IF arg.number # 0
    THEN SetError(h, pa, "Expected a string here, not a number")
    ELSE IF ~arg.hasList \/ arg.list = <<>>
    THEN SetError(h, pa, "Expected a single string here")
    ELSE IF Len(arg.list) # 1
    THEN SetError(h, pa, "Expected a single string here, not a string list")
    ELSE h

\* SieveArgument::assertStringList
AssertStringList(h, pa, arg) ==
    IF arg.tag # ""
    THEN SetError(h, pa, "Expected a string list here, not a tag")
    ELSE IF arg.number # 0
    THEN SetError(h, pa, "Expected a string list here, not a number")
    ELSE IF ~arg.hasList \/ arg.list = <<>>
    THEN SetError(h, pa, "Expected a string list here")
    ELSE h

\* *stringList()->firstElement(), for a non-null list
FirstElement(arg) == IF arg.list = <<>> THEN "" ELSE arg.list[1]

(***************************************************************************)
(* SieveArgumentList.  pl is the list's path and as its arguments();       *)
(* an argument is returned as its index in as, a null pointer as 0.        *)
(* Operators that both change productions and return a value yield         *)
(* [h |-> the heap afterwards, r |-> the value].                           *)
(***************************************************************************)
RECURSIVE ArgumentFollowingTagFrom(_, _, _, _, _, _, _)
\* The loop of argumentFollowingTag, with the iterator at argument i.
ArgumentFollowingTagFrom(h, pl, as, tag, i, firstTag, result) ==
    IF i > Len(as)
    THEN [h |-> h, r |-> result]
    ELSE LET hit == as[i].tag = tag
             ft == IF hit /\ firstTag = 0 THEN i ELSE firstTag
             look == ft # 0 /\ result = 0
             res == IF look /\ i + 1 <= Len(as) THEN i + 1 ELSE result
             \* the second if of the loop body, on the heap h1 the first left
             Follow(h1) ==
                 IF ~look
                 THEN h1
                 ELSE IF i + 1 <= Len(as)
                 THEN SetParsed(h1, ArgAt(pl, i + 1), TRUE)
                 ELSE SetError(h1, ArgAt(pl, ft),
                               "Tag not followed by argument: " \o tag)
         IN  ArgumentFollowingTagFrom(
                 Follow(IF ~hit
                        THEN h
                        ELSE IF firstTag # 0
                        THEN SetError(SetError(h, ArgAt(pl, firstTag),
                                               "Tag used twice: " \o tag),
                                      ArgAt(pl, i), "Tag used twice: " \o tag)
                        ELSE SetParsed(h, ArgAt(pl, i), TRUE)),
                 pl, as, tag, i + 1, ft, res)

\* SieveArgumentList::argumentFollowingTag
ArgumentFollowingTag(h, pl, as, tag) ==
    ArgumentFollowingTagFrom(h, pl, as, tag, 1, 0, 0)

\* SieveArgumentList::takeTaggedString
TakeTaggedString(h, pl, as, tag) ==
    LET Taken(f) ==
            IF f.r = 0
            THEN [h |-> f.h, r |-> ""]
            ELSE [h |-> AssertString(f.h, ArgAt(pl, f.r), as[f.r]),
                  r |-> IF as[f.r].hasList THEN FirstElement(as[f.r]) ELSE ""]
    IN  Taken(ArgumentFollowingTag(h, pl, as, tag))

\* SieveArgumentList::takeTaggedStringList; a null result is null = TRUE
TakeTaggedStringList(h, pl, as, tag) ==
    LET Taken(f) ==
            IF f.r = 0
            THEN [h |-> f.h, r |-> <<>>, null |-> TRUE]
            ELSE [h |-> AssertStringList(f.h, ArgAt(pl, f.r), as[f.r]),
                  r |-> as[f.r].list, null |-> ~as[f.r].hasList]
    IN  Taken(ArgumentFollowingTag(h, pl, as, tag))

\* SieveArgumentList::takeTaggedNumber
TakeTaggedNumber(h, pl, as, tag) ==
    LET Taken(f) ==
            IF f.r = 0
            THEN [h |-> f.h, r |-> 0]
            ELSE [h |-> AssertNumber(f.h, ArgAt(pl, f.r), as[f.r]),
                  r |-> as[f.r].number]
    IN  Taken(ArgumentFollowingTag(h, pl, as, tag))

\* The indexes of the arguments tagged tag, in source order
TagPositions(as, tag) == {i \in 1..Len(as) : as[i].tag = tag}

Min(S) == CHOOSE x \in S : \A y \in S : x <= y

RECURSIVE FlagTwice(_, _, _, _, _)
\* A plausible slip: only the first occurrence is flagged.
FlagTwiceFirstOnly(h, pl, tag, r, later) ==
    IF later = {}
    THEN h
    ELSE SetError(h, ArgAt(pl, r), "Tag occurs twice: " \o tag)

\* The inner loop of findTag: every later occurrence of the tag puts
\* "Tag occurs twice" on the first occurrence r and on itself.
FlagTwice(h, pl, tag, r, later) ==
    IF later = {}
    THEN h
    ELSE LET a == Min(later)
         IN  FlagTwice(SetError(SetError(h, ArgAt(pl, r),
                                         "Tag occurs twice: " \o tag),
                                ArgAt(pl, a), "Tag occurs twice: " \o tag),
                       pl, tag, r, later \ {a})

\* SieveArgumentList::findTag
FindTag(h, pl, as, tag) ==
    LET at == TagPositions(as, tag)
    IN  IF at = {}
        THEN [h |-> h, r |-> 0]
        ELSE LET r == Min(at)
             IN  [h |-> SetParsed(FlagTwice(h, pl, tag, r, at \ {r}),
                                  ArgAt(pl, r), TRUE),
                  r |-> r]

RECURSIVE ConflictFrom(_, _, _, _, _)
\* The second loop of allowOneTag, over the rest of the collected list.
ConflictFrom(h, pl, as, first, rest) ==
    IF rest = {}
    THEN h
    ELSE LET a == Min(rest)
         IN  ConflictFrom(SetError(h, ArgAt(pl, a),
                                   "Tag " \o first \o " conflicts with "
                                       \o as[a].tag),
                          pl, as, first, rest \ {a})

\* SieveArgumentList::allowOneTag; tags is {t1, .., t5} without the nulls
AllowOneTag(h, pl, as, tags) ==
    LET r == {i \in 1..Len(as) : as[i].tag # "" /\ as[i].tag \in tags}
    IN  IF Cardinality(r) < 2
        THEN h
        ELSE LET a == Min(r)
             IN  ConflictFrom(SetError(h, ArgAt(pl, a),
                                       "Mutually exclusive tags used"),
                              pl, as, as[a].tag, r \ {a})

\* d->n of the argument list pl
Numbered(h, pl) == IF pl \in DOMAIN h.n THEN h.n[pl] ELSE <<>>

RECURSIVE Unparsed(_, _, _, _)
\* The unparsed arguments from index i on, in source order
Unparsed(h, pl, as, i) ==
    IF i > Len(as)
    THEN <<>>
    ELSE IF Parsed(h, ArgAt(pl, i))
    THEN Unparsed(h, pl, as, i + 1)
    ELSE <<i>> \o Unparsed(h, pl, as, i + 1)

\* SieveArgumentList::numberRemainingArguments
NumberRemainingArguments(h, pl, as) ==
    [h EXCEPT !.n = (pl :> Unparsed(h, pl, as, 1)) @@ @]

RECURSIVE FlagUnparsedFrom(_, _, _, _)
\* The loop of flagUnparsedAsBad, with the iterator at argument i.
FlagUnparsedFrom(h, pl, as, i) ==
    IF i > Len(as)
    THEN h
    ELSE LET pa == ArgAt(pl, i)
             h1 == IF Parsed(h, pa)
                   THEN h
                   ELSE IF as[i].number # 0
                   THEN SetError(h, pa, "Why is this number here?")
                   ELSE IF as[i].hasList
                   THEN SetError(h, pa, "Why is this string/list here?")
                   ELSE IF as[i].tag # ""
                   THEN SetError(h, pa, "Unknown tag: " \o as[i].tag)
                   ELSE SetError(h, pa, "What happened? I'm dazed and confused")
         IN  FlagUnparsedFrom(h1, pl, as, i + 1)

\* A plausible slip: the sweep is left out.
FlagNothing(h, pl, as) == h

\* SieveArgumentList::flagUnparsedAsBad
FlagUnparsedAsBad(h, pl, as) == FlagUnparsedFrom(h, pl, as, 1)

\* A plausible slip: the loop never decrements n and runs off the list.
NthNumberedStuck(h, pl, n) ==
    LET At(num) == IF n > 1 THEN 0 ELSE IF Len(num) >= 1 THEN num[1] ELSE 0
    IN  At(Numbered(h, pl))

\* The iterator of takeStringList/takeString/takeNumber after its loop:
\* the n-th numbered argument, 0 when the iterator ran off the list.
NthNumbered(h, pl, n) ==
    LET At(num) == IF n <= 1
                   THEN (IF Len(num) >= 1 THEN num[1] ELSE 0)
                   ELSE (IF Len(num) >= n THEN num[n] ELSE 0)
    IN  At(Numbered(h, pl))

\* SieveArgumentList::takeStringList; a null result is null = TRUE
TakeStringList(h, pl, as, n) ==
    LET Taken(i) ==
            IF i = 0
            THEN [h |-> SetError(h, pl, "Missing string/list argument"),
                  r |-> <<>>, null |-> TRUE]
            ELSE [h |-> SetParsed(AssertStringList(h, ArgAt(pl, i), as[i]),
                                  ArgAt(pl, i), TRUE),
                  r |-> as[i].list, null |-> ~as[i].hasList]
    IN  Taken(NthNumbered(h, pl, n))

\* SieveArgumentList::takeString
TakeString(h, pl, as, n) ==
    LET Taken(i) ==
            IF i = 0
            THEN [h |-> SetError(h, pl, "Missing string argument"), r |-> ""]
            ELSE [h |-> SetParsed(AssertString(h, ArgAt(pl, i), as[i]),
                                  ArgAt(pl, i), TRUE),
                  r |-> IF as[i].hasList THEN FirstElement(as[i]) ELSE ""]
    IN  Taken(NthNumbered(h, pl, n))

\* SieveArgumentList::takeNumber
TakeNumber(h, pl, as, n) ==
    LET Taken(i) ==
            IF i = 0
            THEN [h |-> SetError(h, pl, "Missing numeric argument"), r |-> 0]
            ELSE [h |-> SetParsed(AssertNumber(h, ArgAt(pl, i), as[i]),
                                  ArgAt(pl, i), TRUE),
                  r |-> as[i].number]
    IN  Taken(NthNumbered(h, pl, n))

\* SieveArgumentList::takeArgument: the loop advances the iterator while
\* n > 1 and never decrements n, so for n > 1 it runs off the list.
TakeArgument(h, pl, n) ==
    LET At(num) == IF n > 1 THEN 0 ELSE IF Len(num) >= 1 THEN num[1] ELSE 0
    IN  At(Numbered(h, pl))

\* tagError reporting on the tag itself rather than on the argument that
\* follows it
TagErrorOnTag(h, pl, as, tag, error) ==
    LET Report(g) == IF g.r # 0
                     THEN SetError(g.h, ArgAt(pl, g.r), error)
                     ELSE SetError(g.h, pl, error)
    IN  Report(FindTag(h, pl, as, tag))

\* SieveArgumentList::tagError
TagError(h, pl, as, tag, error) ==
    LET Report(g) == IF g.r # 0
                     THEN SetError(g.h, ArgAt(pl, g.r), error)
                     ELSE SetError(g.h, pl, error)
        Find(f) == Report(IF f.r = 0 THEN FindTag(f.h, pl, as, tag) ELSE f)
    IN  Find(ArgumentFollowingTag(h, pl, as, tag))

(***************************************************************************)
(* The external collaborators, by their contracts.                         *)
(***************************************************************************)
\* The mailbox names Mailbox::validName accepts, among those scripts use
ValidMailboxNames == {"/Junk", "/INBOX.Junk"}

\* Mailbox::validName
ValidName(name) == name \in ValidMailboxNames

\* What may follow "INBOX." in the mailbox names scripts use
MailboxTails == {"Junk"}

\* UString::startsWith( "INBOX." )
StartsWithInbox(name) == \E t \in MailboxTails : name = "INBOX." \o t

\* UStringList::split( '.', mailbox.mid( 6 ) )->join( "/" ), for the
\* dot-free tails above
AoxName(name) == CHOOSE t \in MailboxTails : name = "INBOX." \o t

\* The addresses AddressParser::assertSingleAddress accepts without error
SingleAddresses == {"user@example.org"}

(***************************************************************************)
(* SieveTest::parse.  pt is the test's path, t the test.                   *)
(***************************************************************************)
\* The statements of a function run one after another: the heap h a
\* statement leaves is computed before the next statement starts.
Computed(h) == h.clock \in Nat

\* The same for the heaps hs that a function's statements leave in turn
InOrder(hs) == \A i \in DOMAIN hs : Computed(hs[i])

\* The names of a string list that a set lists, kept in order up to the
\* first that is not listed: the loop at the end of SieveTest::parse
RECURSIVE SupportedPrefix(_, _)
SupportedPrefix(names, supp) ==
    IF names = <<>> \/ names[1] \notin supp
    THEN <<>>
    ELSE <<names[1]>> \o SupportedPrefix(Tail(names), supp)

Range(f) == {f[i] : i \in DOMAIN f}

\* The tail of SieveTest::parse for a test whose identifier is "ihave" and
\* whose error() is empty.
IhaveOutcome(h, pt, t) ==
    LET Outcome(l) ==
            LET x == SupportedPrefix(l.r, l.h.supported)
            IN  IF Len(x) < Len(l.r)
                THEN SetIhaveFailed(l.h, pt)
                ELSE AddExtensions(l.h, pt, Range(x))
    IN  Outcome(TakeStringList(h, ArgsOf(pt), t.arguments.a, 1))

\* SieveTest::parse for "size"
ParseSize(h, pt, t) ==
    LET pl == ArgsOf(pt)
        as == t.arguments.a
        IfUnder(under) == IF under.r # 0
                          THEN TakeTaggedNumber(under.h, pl, as, ":under").h
                          ELSE under.h
        IfOver(over) == IF over.r # 0
                        THEN TakeTaggedNumber(over.h, pl, as, ":over").h
                        ELSE IfUnder(FindTag(over.h, pl, as, ":under"))
    IN  IfOver(FindTag(AllowOneTag(h, pl, as, {":over", ":under"}),
                       pl, as, ":over"))

\* The collations Collation::create knows
Collations == {"i;octet", "i;ascii-casemap", "i;ascii-numeric"}

\* SieveTest::findComparator
FindComparator(h, pt, t) ==
    LET pl == ArgsOf(pt)
        as == t.arguments.a
        Taken(c) ==
            IF c.r = ""
            THEN Require(c.h, pt, "comparator-i;ascii-casemap")
            ELSE IF c.r \notin Collations
            THEN TagError(c.h, pl, as, ":comparator",
                          "Unknown comparator: " \o c.r)
            ELSE Require(c.h, pt, "comparator-" \o c.r)
    IN  Taken(TakeTaggedString(h, pl, as, ":comparator"))

\* The match-type tags, in the order findMatchType looks for them
MatchTypeTags == <<":is", ":matches", ":contains", ":value", ":count">>

RECURSIVE FirstTagFound(_, _, _, _, _)
\* The if/else-if chain of findTag calls over tags, from tag k on: r is the
\* first tag found, "" if none is
FirstTagFound(h, pl, as, tags, k) ==
    IF k > Len(tags)
    THEN [h |-> h, r |-> ""]
    ELSE LET Found(f) == IF f.r # 0
                         THEN [h |-> f.h, r |-> tags[k]]
                         ELSE FirstTagFound(f.h, pl, as, tags, k + 1)
         IN  Found(FindTag(h, pl, as, tags[k]))

\* UString::titlecased() of the relational operators scripts use
Titlecased(s) ==
    CASE s = "gt" -> "GT"
      [] s = "ge" -> "GE"
      [] s = "lt" -> "LT"
      [] s = "le" -> "LE"
      [] s = "eq" -> "EQ"
      [] s = "ne" -> "NE"
      [] OTHER -> s

\* SieveTest::findMatchType
FindMatchType(h, pt, t) ==
    LET pl == ArgsOf(pt)
        as == t.arguments.a
        Operator(m, o) ==
            IF Titlecased(o.r) \in {"GT", "GE", "LT", "LE", "EQ", "NE"}
            THEN o.h
            ELSE TagError(o.h, pl, as, m,
                          "Unknown relational operator: " \o Titlecased(o.r))
        Relational(f) ==
            IF f.r = ":value" \/ f.r = ":count"
            THEN Operator(f.r, TakeTaggedString(
                                   Require(f.h, pt, "relational"),
                                   pl, as, f.r))
            ELSE f.h
    IN  Relational(FirstTagFound(
                       AllowOneTag(h, pl, as, Range(MatchTypeTags)),
                       pl, as, MatchTypeTags, 1))

\* The header field names scripts use that hold a character below 33,
\* a colon or a character above 126, with the code fn() prints for it
IllegalCode(name) ==
    CASE name = "a b" -> "32"
      [] OTHER -> ""

\* The names for which HeaderField::fieldType gives an address field
AddressFields == {"from", "to"}

RECURSIVE CheckFieldNamesFrom(_, _, _, _, _)
\* The loop of takeHeaderFieldList over the names of argument pa, at name k
CheckFieldNamesFrom(h, pa, id, names, k) ==
    IF k > Len(names)
    THEN h
    ELSE LET s == names[k]
             Address(h2) ==
                 IF id = "address" /\ s \notin AddressFields
                 THEN SetError(h2, pa, "Not an address field: " \o s)
                 ELSE h2
             Illegal(h1) ==
                 IF IllegalCode(s) # ""
                 THEN SetError(h1, pa, "Illegal character (ASCII "
                                  \o IllegalCode(s)
                                  \o ") seen in header field name: " \o s)
                 ELSE h1
         IN  CheckFieldNamesFrom(
                 Address(Illegal(
                     IF s = ""
                     THEN SetError(h, pa,
                              "Empty header field names are not allowed")
                     ELSE h)),
                 pa, id, names, k + 1)

\* SieveTest::takeHeaderFieldList
TakeHeaderFieldList(h, pt, t, n) ==
    LET pl == ArgsOf(pt)
        as == t.arguments.a
        Taken(a) ==
            IF a = 0
            THEN SetError(h, pt, "Missing header field list")
            ELSE CheckFieldNamesFrom(
                     AssertStringList(SetParsed(h, ArgAt(pl, a), TRUE),
                                      ArgAt(pl, a), as[a]),
                     ArgAt(pl, a), t.identifier, as[a].list, 1)
    IN  Taken(TakeArgument(h, pl, n))

\* SieveTest::parse for "header"
HeaderTest(h, pt, t) ==
    LET pl == ArgsOf(pt)
        as == t.arguments.a
        h1 == FindComparator(h, pt, t)
        h2 == FindMatchType(h1, pt, t)
        h3 == NumberRemainingArguments(h2, pl, as)
        h4 == TakeHeaderFieldList(h3, pt, t, 1)
    IN  IF InOrder(<<h1, h2, h3, h4>>)
        THEN TakeStringList(h4, pl, as, 2).h
        ELSE h

RECURSIVE ParseTest(_, _, _)
RECURSIVE ParseSubtestsFrom(_, _, _, _)
\* A plausible slip: a sub-test's ihave failure is not passed upward.
ParseSubtestsFromQuiet(h, pt, t, j) ==
    IF ~Computed(h) \/ j > Len(t.arguments.t)
    THEN h
    ELSE LET ps == TestAt(ArgsOf(pt), j)
             Added(h2) == AddExtensions(h2, pt, AddedExtensions(h2, ps))
         IN  ParseSubtestsFrom(Added(ParseTest(h, ps, t.arguments.t[j])),
                               pt, t, j + 1)

\* The loop of SieveTest::parse over the tests of allof/anyof, at test j.
ParseSubtestsFrom(h, pt, t, j) ==
    IF ~Computed(h) \/ j > Len(t.arguments.t)
    THEN h
    ELSE LET ps == TestAt(ArgsOf(pt), j)
             Failed(h1) == IF IhaveFailed(h1, ps)
                           THEN SetIhaveFailed(h1, pt)
                           ELSE h1
             Added(h2) == AddExtensions(h2, pt, AddedExtensions(h2, ps))
         IN  ParseSubtestsFrom(
                 Added(Failed(ParseTest(h, ps, t.arguments.t[j]))),
                 pt, t, j + 1)

\* The identifier dispatch of SieveTest::parse
TestBody(h, pt, t) ==
    LET id == t.identifier
        pl == ArgsOf(pt)
        as == t.arguments.a
        ts == t.arguments.t
        Some(h2) == IF ts = <<>>
                    THEN SetError(h2, pt, "Need at least one subsidiary test")
                    ELSE h2
        One(h1) == IF Len(ts) # 1
                   THEN SetError(h1, pt,
                                 "Test 'not' needs exactly one subsidiary test")
                   ELSE ParseTest(h1, TestAt(pl, 1), ts[1])
    IN  CASE id = "allof" \/ id = "anyof" ->
                 Some(ParseSubtestsFrom(
                          IF as # <<>>
                          THEN SetError(h, pt, "Test '" \o id \o
                                   "' does not accept arguments, only a list of tests")
                          ELSE h,
                          pt, t, 1))
          [] id = "false" -> h
          [] id = "header" -> HeaderTest(h, pt, t)
          [] id = "not" ->
                 One(IF as # <<>>
                     THEN SetError(h, pt,
                              "Test 'not' does not accept arguments, only a test")
                     ELSE h)
          [] id = "size" -> ParseSize(h, pt, t)
          [] id = "true" -> h
          [] id = "ihave" ->
                 TakeStringList(
                     NumberRemainingArguments(Require(h, pt, "ihave"), pl, as),
                     pl, as, 1).h
          [] OTHER -> SetError(h, pt, "Unknown test: " \o id)

\* SieveTest::parse: the dispatch, the sweep over the unparsed arguments,
\* then the ihave tail
ParseTest(h, pt, t) ==
    LET Ihave(h2) == IF t.identifier = "ihave" /\ Error(h2, pt) = ""
                     THEN IhaveOutcome(h2, pt, t)
                     ELSE h2
        Rest(hb) == IF ~Computed(hb)
                    THEN hb
                    ELSE Ihave(FlagUnparsedAsBad(hb, ArgsOf(pt),
                                                 t.arguments.a))
    IN  Rest(TestBody([h EXCEPT !.visited = @ \cup {pt}], pt, t))

(***************************************************************************)
(* SieveCommand::parse.  p is the command's path, c the command.           *)
(***************************************************************************)
\* A plausible slip: the test for a supported name is inverted.
QuotedNamesInverted(names, supp, in) ==
    {Quoted(names[i]) : i \in {k \in DOMAIN names : (names[k] \in supp) # in}}

\* The names of a string list that are (in = TRUE) or are not (in = FALSE)
\* supported, each quoted: the lists a and e of the "require" branch
QuotedNames(names, supp, in) ==
    {Quoted(names[i]) : i \in {k \in DOMAIN names : (names[k] \in supp) = in}}

\* e.join( ", " ) for the one or two unsupported names scripts list
RECURSIVE Join(_, _)
Join(names, supp) ==
    IF names = <<>>
    THEN ""
    ELSE IF names[1] \in supp
    THEN Join(Tail(names), supp)
    ELSE LET rest == Join(Tail(names), supp)
         IN  IF rest = ""
             THEN Quoted(names[1])
             ELSE Quoted(names[1]) \o ", " \o rest

\* A plausible slip: a misplaced require is silently ignored.
RequireCommandSilent(h, p, c) ==
    LET pl == ArgsOf(p)
        as == c.arguments.a
        Names(l) ==
            LET Placed(h1) ==
                    IF p \notin h1.require
                    THEN h1
                    ELSE AddExtensions(h1, Parent(p),
                                       QuotedNames(l.r, l.h.supported, TRUE))
            IN  Placed(IF QuotedNames(l.r, l.h.supported, FALSE) # {}
                       THEN SetError(l.h, p, "Each string must be a supported "
                                \o "sieve extension. " \o "These are not: "
                                \o Join(l.r, l.h.supported))
                       ELSE l.h)
    IN  Names(TakeStringList(NumberRemainingArguments(h, pl, as), pl, as, 1))

\* SieveCommand::parse for "require": the list l of names is taken, then
\* the unsupported ones are reported, then the command's place is looked at
RequireCommand(h, p, c) ==
    LET pl == ArgsOf(p)
        as == c.arguments.a
        Names(l) ==
            LET Placed(h1) ==
                    IF p \notin h1.require
                    THEN SetError(h1, p,
                             "require is only permitted as the first command.")
                    ELSE AddExtensions(h1, Parent(p),
                                       QuotedNames(l.r, l.h.supported, TRUE))
            IN  Placed(IF QuotedNames(l.r, l.h.supported, FALSE) # {}
                       THEN SetError(l.h, p, "Each string must be a supported "
                                \o "sieve extension. " \o "These are not: "
                                \o Join(l.r, l.h.supported))
                       ELSE l.h)
    IN  Names(TakeStringList(NumberRemainingArguments(h, pl, as), pl, as, 1))

\* SieveCommand::parse for "fileinto": require, the :copy tag, the :flags
\* tag, then the mailbox name m
FileintoCommand(h, p, c) ==
    LET pl == ArgsOf(p)
        as == c.arguments.a
        Copy(copy) == IF copy.r # 0
                      THEN Require(copy.h, p, "copy")
                      ELSE copy.h
        Flags(flags) ==
            IF flags.r # 0
            THEN TakeTaggedStringList(Require(flags.h, p, "imap4flags"),
                                      pl, as, ":copy").h
            ELSE flags.h
        Name(m) ==
            IF ~ValidName(m.r) /\ ~ValidName("/" \o m.r)
            THEN SetError(m.h, p, "Expected mailbox name, but got: " \o m.r)
            ELSE IF StartsWithInbox(m.r)
            THEN SetError(m.h, p, Quoted(m.r) \o
                     " is Cyrus syntax. Archiveopteryx uses " \o
                     Quoted(AoxName(m.r)))
            ELSE m.h
        h1 == Require(h, p, "fileinto")
        h2 == Copy(FindTag(h1, pl, as, ":copy"))
        h3 == Flags(FindTag(h2, pl, as, ":flags"))
        h4 == NumberRemainingArguments(h3, pl, as)
    IN  IF InOrder(<<h1, h2, h3, h4>>)
        THEN Name(TakeString(h4, pl, as, 1))
        ELSE h

\* SieveCommand::parse for "redirect"
RedirectCommand(h, p, c) ==
    LET pl == ArgsOf(p)
        as == c.arguments.a
        Address(s) ==
            IF s.r \notin SingleAddresses
            THEN SetError(s.h, p,
                     "Expected one normal address (local@domain), but got: "
                         \o s.r)
            ELSE s.h
    IN  Address(TakeString(
                    NumberRemainingArguments(FindTag(h, pl, as, ":copy").h,
                                             pl, as),
                    pl, as, 1))

\* AddressParser::error() after assertSingleAddress(), "" for the addresses
\* it accepts
AddressError(s) ==
    IF s \in SingleAddresses THEN "" ELSE "Expected one address: " \o s

\* SieveCommand::parseAsAddress
ParseAsAddress(h, p, c, s, t) ==
    IF AddressError(s) # ""
    THEN TagError(h, ArgsOf(p), c.arguments.a, t, AddressError(s))
    ELSE h

RECURSIVE ParseAddressesFrom(_, _, _, _, _)
\* The loop of the vacation branch over the addresses of :addresses
ParseAddressesFrom(h, p, c, addresses, k) ==
    IF k > Len(addresses)
    THEN h
    ELSE ParseAddressesFrom(ParseAsAddress(h, p, c, addresses[k], ":addresses"),
                            p, c, addresses, k + 1)

\* What UString::isAscii, Message::parseHeader and Bodypart::parseBodypart
\* make of the vacation reasons scripts use: whether the text is ASCII, the
\* two parse errors, the header field names, and whether the body part has
\* neither children nor text
MimeEntity(reason) ==
    CASE reason = "Content-Type: text/plain\r\n\r\nOut" ->
             [ascii |-> TRUE, headerError |-> "", bodyError |-> "",
              fields |-> <<"Content-Type">>, empty |-> FALSE]
      [] reason = "Subject: x\r\n\r\nOut" ->
             [ascii |-> TRUE, headerError |-> "", bodyError |-> "",
              fields |-> <<"Subject">>, empty |-> FALSE]
      [] OTHER ->
             [ascii |-> TRUE, headerError |-> "", bodyError |-> "",
              fields |-> <<>>, empty |-> reason = ""]

\* UString::startsWith( "Content-" ) for the field names above
StartsWithContent(name) == name \in {"Content-Type"}

RECURSIVE CheckFieldsFrom(_, _, _, _)
\* The loop of the vacation branch over the fields of the MIME header
CheckFieldsFrom(h, p, fields, k) ==
    IF k > Len(fields)
    THEN h
    ELSE CheckFieldsFrom(
             IF ~StartsWithContent(fields[k])
             THEN SetError(h, p, "Header field not permitted: " \o fields[k])
             ELSE h,
             p, fields, k + 1)

\* The vacation branch after the reason has been taken
VacationReason(h, p, mime, reason) ==
    LET e == MimeEntity(reason)
        Text(h3) == IF e.empty
                    THEN SetError(h3, p,
                             "Vacation reply does not contain any text")
                    ELSE h3
        Parsed2(h2) == IF e.headerError # ""
                       THEN SetError(h2, p, "While parsing MIME header: "
                                                \o e.headerError)
                       ELSE IF e.bodyError # ""
                       THEN SetError(h2, p, "While parsing MIME bodypart: "
                                                \o e.bodyError)
                       ELSE h2
    IN  IF mime
        THEN Text(CheckFieldsFrom(
                      Parsed2(IF ~e.ascii
                              THEN SetError(h, p, ":mime bodies must be all-ASCII, "
                                       \o "8-bit text is not permitted")
                              ELSE h),
                      p, e.fields, 1))
        ELSE IF reason = ""
        THEN SetError(h, p, "Empty vacation text does not make sense")
        ELSE h

\* The vacation branch's `days`: 7 unless the arguments have a :days tag
VacationDays(h, pl, as) ==
    LET IfDays(f) == IF f.r # 0
                     THEN TakeTaggedNumber(f.h, pl, as, ":days")
                     ELSE [h |-> f.h, r |-> 7]
    IN  IfDays(FindTag(h, pl, as, ":days"))

\* SieveCommand::parse for "vacation"
VacationCommand(h, p, c) ==
    LET pl == ArgsOf(p)
        as == c.arguments.a
        Days(d) == IF d.r < 1 \/ d.r > 365
                   THEN TagError(d.h, pl, as, ":days", "Number must be 1..365")
                   ELSE d.h
        From(f) == IF f.r # 0
                   THEN (LET Taken(s) == ParseAsAddress(s.h, p, c, s.r, ":from")
                         IN  Taken(TakeTaggedString(f.h, pl, as, ":from")))
                   ELSE f.h
        Addresses(f) ==
            IF f.r # 0
            THEN (LET Taken(l) == ParseAddressesFrom(l.h, p, c, l.r, 1)
                  IN  Taken(TakeTaggedStringList(f.h, pl, as, ":addresses")))
            ELSE f.h
        Reason(mime) ==
            LET Taken(s) == VacationReason(s.h, p, mime.r # 0, s.r)
            IN  Taken(TakeString(
                          NumberRemainingArguments(
                              TakeTaggedString(mime.h, pl, as, ":handle").h,
                              pl, as),
                          pl, as, 1))
        h1 == Days(VacationDays(Require(h, p, "vacation"), pl, as))
        h2 == TakeTaggedString(h1, pl, as, ":subject").h
        h3 == From(FindTag(h2, pl, as, ":from"))
        h4 == Addresses(FindTag(h3, pl, as, ":addresses"))
    IN  IF InOrder(<<h1, h2, h3, h4>>)
        THEN Reason(FindTag(h4, pl, as, ":mime"))
        ELSE h

\* The method URIs SieveNotifyMethod finds valid, among those scripts use
ValidNotifyMethods == {"mailto:user@example.org"}

\* SieveNotifyMethod's constructor: an invalid method is reported on the
\* argument it was given, or on the command when it was given none
NotifyMethod(h, p, method, arg) ==
    IF method \in ValidNotifyMethods
    THEN h
    ELSE SetError(h, IF arg # 0 THEN ArgAt(ArgsOf(p), arg) ELSE p,
                  "Unsupported notification method: " \o method)

\* c >= '1' && c <= '3' for c = importance[0], on the strings scripts use
\* after :from and :importance
StartsWithOneToThree(s) == s \in {"1", "2", "3", "2@example.org"}

\* SieveCommand::parse for "notify"
NotifyCommand(h, p, c) ==
    LET pl == ArgsOf(p)
        as == c.arguments.a
        From(f) == IF f.r # 0
                   THEN TakeTaggedString(f.h, pl, as, ":from").h
                   ELSE f.h
        Check(s) == IF ~StartsWithOneToThree(s.r)
                    THEN TagError(s.h, pl, as, ":importance",
                                  "Importance must be 1, 2 or 3")
                    ELSE s.h
        Importance(f) == Check(IF f.r # 0
                               THEN TakeTaggedString(f.h, pl, as, ":from")
                               ELSE [h |-> f.h, r |-> "2"])
        Options(f) == IF f.r # 0
                      THEN TakeTaggedStringList(f.h, pl, as, ":options").h
                      ELSE f.h
        Message(f) == IF f.r # 0
                      THEN TakeTaggedString(f.h, pl, as, ":message").h
                      ELSE f.h
        \* m->valid(): setFrom and setMessage are given findTag's results
        Again(f, tag) == IF f.r # 0 THEN FindTag(f.h, pl, as, tag).h ELSE f.h
        Valid(hm, method) ==
            IF method \in ValidNotifyMethods
            THEN Again(FindTag(Again(FindTag(hm, pl, as, ":from"), ":from"),
                               pl, as, ":message"),
                       ":message")
            ELSE hm
        Method(s) == Valid(NotifyMethod(s.h, p, s.r, TakeArgument(s.h, pl, 1)),
                           s.r)
        h1 == From(FindTag(Require(h, p, "enotify"), pl, as, ":from"))
        h2 == Importance(FindTag(h1, pl, as, ":importance"))
        h3 == Options(FindTag(h2, pl, as, ":options"))
        h4 == Message(FindTag(h3, pl, as, ":message"))
    IN  IF InOrder(<<h1, h2, h3, h4>>)
        THEN Method(TakeString(NumberRemainingArguments(h4, pl, as),
                               pl, as, 1))
        ELSE h

\* The identifier dispatch of SieveCommand::parse
CommandBody(h, p, c, previous) ==
    LET i  == c.identifier
        pl == ArgsOf(p)
        as == c.arguments.a
        Reason(h1) == IF as = <<>>
                      THEN h1
                      ELSE TakeString(NumberRemainingArguments(h1, pl, as),
                                      pl, as, 1).h
    IN  CASE i = "if" \/ i = "elsif" ->
                 IF i = "elsif" /\ previous # "if" /\ previous # "elsif"
                 THEN SetError(h, p, "elsif is only permitted after if/elsif")
                 ELSE h
          [] i = "else" ->
                 IF previous # "if" /\ previous # "elsif"
                 THEN SetError(h, p, "else is only permitted after if/elsif")
                 ELSE h
          [] i = "require" -> RequireCommand(h, p, c)
          [] i = "stop" -> h
          [] i = "reject" -> Reason(Require(h, p, "reject"))
          [] i = "ereject" ->
                 TakeString(NumberRemainingArguments(Require(h, p, "reject"),
                                                     pl, as),
                            pl, as, 1).h
          [] i = "fileinto" -> FileintoCommand(h, p, c)
          [] i = "redirect" -> RedirectCommand(h, p, c)
          [] i = "keep" -> h
          [] i = "discard" -> h
          [] i = "vacation" -> VacationCommand(h, p, c)
          [] i = "notify" -> NotifyCommand(h, p, c)
          [] i = "setflag" \/ i = "addflag" \/ i = "removeflag" ->
                 TakeStringList(NumberRemainingArguments(h, pl, as),
                                pl, as, 1).h
          [] OTHER -> SetError(h, p, "Command unknown: " \o i)

RECURSIVE DoesNotUseTestsFrom(_, _, _, _)
\* The loop that puts "does not use tests" on the tests from test j on.
DoesNotUseTestsFrom(h, p, c, j) ==
    IF j > Len(c.arguments.t)
    THEN h
    ELSE DoesNotUseTestsFrom(
             SetError(h, TestAt(ArgsOf(p), j),
                      "Command " \o c.identifier \o " does not use tests"),
             p, c, j + 1)

\* A plausible slip: the block is never marked ihave-failed.
MarkBlockNever(h, p, c, pt) ==
    IF c.hasBlock
    THEN IF IhaveFailed(h, pt)
         THEN h
         ELSE AddExtensions(h, BlockOf(p), AddedExtensions(h, pt))
    ELSE h

\* What SieveCommand::parse does with its block after analysing test pt
MarkBlock(h, p, c, pt) ==
    IF c.hasBlock
    THEN IF IhaveFailed(h, pt)
         THEN SetIhaveFailed(h, BlockOf(p))
         ELSE AddExtensions(h, BlockOf(p), AddedExtensions(h, pt))
    ELSE h

RECURSIVE ParseTestsFrom(_, _, _, _)
\* The loop of SieveCommand::parse over the tests of if/elsif, at test j.
ParseTestsFrom(h, p, c, j) ==
    IF ~Computed(h) \/ j > Len(c.arguments.t)
    THEN h
    ELSE ParseTestsFrom(
             MarkBlock(ParseTest(h, TestAt(ArgsOf(p), j), c.arguments.t[j]),
                       p, c, TestAt(ArgsOf(p), j)),
             p, c, j + 1)

RECURSIVE ParseCommand(_, _, _, _)
RECURSIVE ParseBlockFrom(_, _, _, _, _)
\* A plausible slip: the loop stops after the first command of the block.
ParseBlockFromFirstOnly(h, pb, cs, i, prev) ==
    IF ~Computed(h) \/ i > Len(cs)
    THEN h
    ELSE ParseCommand(h, CommandAt(pb, i), cs[i], prev)

\* A plausible slip: prev is not advanced to the command just analysed.
ParseBlockFromStale(h, pb, cs, i, prev) ==
    IF ~Computed(h) \/ i > Len(cs)
    THEN h
    ELSE ParseBlockFrom(ParseCommand(h, CommandAt(pb, i), cs[i], prev),
                        pb, cs, i + 1, prev)

\* The loop of SieveCommand::parse over the commands of its block, at
\* command i, prev being the identifier of the command before it.
ParseBlockFrom(h, pb, cs, i, prev) ==
    IF ~Computed(h) \/ i > Len(cs)
    THEN h
    ELSE ParseBlockFrom(ParseCommand(h, CommandAt(pb, i), cs[i], prev),
                        pb, cs, i + 1, cs[i].identifier)

\* SieveCommand::parse: the name, the identifier dispatch, the sweep over
\* the unparsed arguments, the tests, then the block.  Logged records, for
\* a require command, its parent's added extensions before and after.
ParseCommand(h, p, c, previous) ==
    LET id   == c.identifier
        test == id = "if" \/ id = "elsif"
        blk  == id = "if" \/ id = "elsif" \/ id = "else"
        Named(h0) ==
            IF id = "" THEN SetError(h0, p, "Command name is empty") ELSE h0
        Logged(hb) ==
            IF id = "require"
            THEN [hb EXCEPT !.requireLog = @ \cup
                     {[path |-> p,
                       before |-> AddedExtensions(h, Parent(p)),
                       after |-> AddedExtensions(hb, Parent(p))]}]
            ELSE hb
        Tests(h3) ==
            IF test
            THEN ParseTestsFrom(
                     IF Len(c.arguments.t) # 1
                     THEN SetError(h3, p, "Command " \o id \o
                                          " requires one test")
                     ELSE h3,
                     p, c, 1)
            ELSE IF c.arguments.t = <<>>
            THEN DoesNotUseTestsFrom(h3, p, c, 1)
            ELSE h3
        Block(h4) ==
            IF blk
            THEN IF ~c.hasBlock
                 THEN SetError(h4, p, "Command " \o id \o
                                      " requires a subsidiary {..} block")
                 ELSE ParseBlockFrom(h4, BlockOf(p), c.block, 1, "")
            ELSE IF c.hasBlock
            THEN SetError(h4, BlockOf(p), "Command " \o id \o
                              " does not use a subsidiary command block")
            ELSE h4
        Rest(hb) ==
            IF ~Computed(hb)
            THEN hb
            ELSE Block(Tests(FlagUnparsedAsBad(Logged(hb), ArgsOf(p),
                                               c.arguments.a)))
    IN  Rest(CommandBody(Named([h EXCEPT !.visited = @ \cup {p}]),
                         p, c, previous))

(***************************************************************************)
(* The productions of a tree, each as [path, kind, node].                  *)
(***************************************************************************)
RECURSIVE TestProductions(_, _)
RECURSIVE ListProductions(_, _)
\* An argument list, its arguments and the productions of its tests
ListProductions(pl, l) ==
    {[path |-> pl, kind |-> "arguments", node |-> l]}
    \cup {[path |-> ArgAt(pl, k), kind |-> "argument", node |-> l.a[k]]
            : k \in DOMAIN l.a}
    \cup UNION {TestProductions(TestAt(pl, j), l.t[j]) : j \in DOMAIN l.t}

TestProductions(pt, t) ==
    {[path |-> pt, kind |-> "test", node |-> t]}
    \cup ListProductions(ArgsOf(pt), t.arguments)

RECURSIVE CommandProductions(_, _)
CommandProductions(p, c) ==
    {[path |-> p, kind |-> "command", node |-> c]}
    \cup ListProductions(ArgsOf(p), c.arguments)
    \cup (IF c.hasBlock
          THEN {[path |-> BlockOf(p), kind |-> "block", node |-> c.block]}
               \cup UNION {CommandProductions(CommandAt(BlockOf(p), i), c.block[i])
                             : i \in DOMAIN c.block}
          ELSE {})

\* Every production of the script cs, the script itself included
Productions(cs) ==
    {[path |-> Root, kind |-> "script", node |-> cs]}
    \cup UNION {CommandProductions(CommandAt(Root, i), cs[i]) : i \in DOMAIN cs}

Paths(cs) == {x.path : x \in Productions(cs)}

(***************************************************************************)
(* The script's driver and the capability resolver.                        *)
(***************************************************************************)
\* The order in which the resolver names a production's needed extensions
ExtensionOrder ==
    <<"fileinto", "copy", "imap4flags", "ihave", "reject", "ereject",
      "envelope", "body", "date", "relational", "subaddress", "vacation",
      "enotify", "comparator-i;octet", "comparator-i;ascii-casemap",
      "comparator-i;ascii-numeric">>

\* The extensions a script may use without naming them in a require
ImplicitExtensions == {"comparator-i;octet", "comparator-i;ascii-casemap"}

\* The supported extensions that the permitted require commands of the
\* script cs name
RequiredNames(h, cs) ==
    UNION {Range(cs[i].arguments.a[1].list) \cap h.supported :
             i \in {k \in DOMAIN cs :
                      /\ CommandAt(Root, k) \in h.require
                      /\ cs[k].identifier = "require"
                      /\ cs[k].arguments.a # <<>>
                      /\ cs[k].arguments.a[1].hasList}}

\* The registered needs that no require names
Undeclared(h, cs) ==
    {x \in h.needed : x[2] \notin RequiredNames(h, cs) \cup ImplicitExtensions}

\* The first extension, in that order, among the needs of production p
FirstNeeded(needs, p) ==
    ExtensionOrder[Min({i \in DOMAIN ExtensionOrder :
                           <<p, ExtensionOrder[i]>> \in needs})]

RECURSIVE ResolveFrom(_, _, _)
\* Every production that registered one of the needs gets the capability
\* error, through setError.
ResolveFrom(h, needs, ps) ==
    IF ps = {}
    THEN h
    ELSE LET p == CHOOSE q \in ps : TRUE
         IN  ResolveFrom(SetError(h, p, "Needs extension "
                                            \o FirstNeeded(needs, p)
                                            \o " not declared by require"),
                         needs, ps \ {p})

\* The capability resolver at the end of the analysis: the needs are
\* reconciled against what the script's require names
Resolve(h) ==
    ResolveFrom(h, Undeclared(h, script), {x[1] : x \in Undeclared(h, script)})

\* The driver marks the first command, if it is a require, as the place
\* where require is permitted.
FlagRequire(h, cs) ==
    IF cs # <<>> /\ cs[1].identifier = "require"
    THEN SetRequirePermitted(h, CommandAt(Root, 1), TRUE)
    ELSE h

\* The identifier of the top-level command before command i
Previous(cs, i) == IF i > 1 THEN cs[i - 1].identifier ELSE ""

(***************************************************************************)
(* The scripts analysed.                                                   *)
(***************************************************************************)
\* Commands in a block: at most MaxBlock of BlockCommands
MaxBlock == 2

Keep == Command("keep", <<>>)

FileintoJunk == Command("fileinto", <<StrArg("Junk")>>)

RequireFileinto == Command("require", <<ListArg(<<"fileinto">>)>>)

IhaveNoSuch == Test("ihave", <<ListArg(<<"nosuchext">>)>>, <<>>)

IhaveFileinto == Test("ihave", <<ListArg(<<"fileinto">>)>>, <<>>)

True == Test("true", <<>>, <<>>)

\* a test with an argument it does not take
TrueX == Test("true", <<StrArg("x")>>, <<>>)

BlockCommands ==
    {Keep,
     Command("keep", <<StrArg("x")>>),
     FileintoJunk,
     Command("weirdcommand", <<>>),
     RequireFileinto,
     BlockCommand("else", <<>>, <<FileintoJunk>>)}

RECURSIVE SeqsUpTo(_, _)
\* The sequences of at most n elements of S
SeqsUpTo(S, n) ==
    IF n = 0
    THEN {<<>>}
    ELSE LET shorter == SeqsUpTo(S, n - 1)
         IN  shorter \cup {Append(q, x) : q \in shorter, x \in S}

Blocks == SeqsUpTo(BlockCommands, MaxBlock)

FixedBlocks == {<<FileintoJunk>>, <<Command("weirdcommand", <<StrArg("x")>>)>>}

KeyTests == {<<IhaveNoSuch>>, <<IhaveFileinto>>, <<True>>}

OtherTests ==
    {<<>>,
     <<Test("ihave", <<ListArg(<<"fileinto", "nosuchext">>)>>, <<>>)>>,
     <<Test("ihave", <<ListArg(<<"fileinto", "copy">>)>>, <<>>)>>,
     <<Test("ihave", <<TagArg(":x"), ListArg(<<"nosuchext">>)>>, <<>>)>>,
     <<Test("ihave", <<ListArg(<<"nosuchext">>), StrArg("x")>>, <<>>)>>,
     <<Test("allof", <<>>, <<TrueX, IhaveNoSuch>>)>>,
     <<Test("allof", <<>>, <<IhaveNoSuch, Test("weirdtest", <<>>, <<>>)>>)>>,
     <<Test("anyof", <<>>, <<IhaveFileinto, True>>)>>,
     <<Test("not", <<>>, <<IhaveNoSuch>>)>>,
     <<Test("size", <<TagArg(":over"), NumArg(1)>>, <<>>)>>,
     <<Test("size", <<>>, <<>>)>>,
     <<IhaveNoSuch, True>>}

IfCommands ==
    {BlockCommand("if", ts, cs) : ts \in KeyTests, cs \in Blocks}
    \cup {BlockCommand(id, ts, cs) :
            id \in {"if", "elsif"}, ts \in KeyTests \cup OtherTests,
            cs \in FixedBlocks}

\* The first command, if any
FirstCommands ==
    {<<>>, <<RequireFileinto>>, <<Keep>>, <<FileintoJunk>>,
     <<Command("require", <<ListArg(<<"nosuchext">>)>>)>>,
     <<Command("require", <<ListArg(<<"ihave", "nosuchext">>)>>)>>}

\* The command after it, if any
MainCommands ==
    {<<>>}
    \cup {<<c>> : c \in IfCommands}
    \cup {<<[identifier |-> "if", arguments |-> [a |-> <<>>, t |-> <<True>>],
            hasBlock |-> FALSE, block |-> <<>>]>>,
          <<[identifier |-> "keep", arguments |-> [a |-> <<>>, t |-> <<TrueX>>],
            hasBlock |-> FALSE, block |-> <<>>]>>,
          <<BlockCommand("keep", <<>>, <<Command("keep", <<StrArg("x")>>)>>)>>,
          <<BlockCommand("keep", <<>>, <<BlockCommand("else", <<>>, <<Keep>>)>>)>>,
          <<BlockCommand("if", <<True>>,
                         <<BlockCommand("if", <<True>>, <<Keep>>),
                           BlockCommand("else", <<>>, <<Keep>>)>>)>>}

\* The last command, if any
LastCommands ==
    {<<>>,
     <<BlockCommand("else", <<>>, <<Keep>>)>>,
     <<RequireFileinto>>,
     <<Command("fileinto", <<TagArg(":copy"), StrArg("INBOX.Junk")>>)>>,
     <<Command("redirect", <<StrArg("nobody")>>)>>}

\* Tests whose arguments carry none, one or several of the tags that
\* exclude each other
HeaderXY(tags) == Test("header", tags \o <<StrArg("x"), StrArg("y")>>, <<>>)

TagTests ==
    {HeaderXY(<<TagArg(":is"), TagArg(":contains")>>),
     HeaderXY(<<TagArg(":is")>>),
     HeaderXY(<<TagArg(":contains"), TagArg(":contains")>>),
     HeaderXY(<<TagArg(":is"), TagArg(":matches"), TagArg(":contains")>>),
     HeaderXY(<<TagArg(":comparator"), TagArg(":is"), TagArg(":contains")>>),
     Test("size", <<TagArg(":over"), TagArg(":under"), NumArg(1)>>, <<>>),
     Test("size", <<TagArg(":under"), NumArg(1), TagArg(":under")>>, <<>>)}

\* The numbers scripts give after :days
DayNumbers == {0, 1, 365, 366, 400}

Vacation(as) == Command("vacation", as)

\* vacation commands without :days, with :days and a number, with :days
\* and no number, and with addresses and a MIME reason
VacationCommands ==
    {Vacation(<<StrArg("Out")>>),
     Vacation(<<TagArg(":days"), StrArg("Out")>>),
     Vacation(<<TagArg(":from"), StrArg("nobody"),
                TagArg(":addresses"),
                ListArg(<<"user@example.org", "nobody">>),
                TagArg(":mime"), StrArg("Subject: x\r\n\r\nOut")>>)}
    \cup {Vacation(<<TagArg(":days"), NumArg(n), StrArg("Out")>>) :
              n \in DayNumbers}

RequireOf(e) == Command("require", <<ListArg(<<e>>)>>)

\* A command with tests ts and no block
NoBlock(id, ts) ==
    [identifier |-> id, arguments |-> [a |-> <<>>, t |-> ts],
     hasBlock |-> FALSE, block |-> <<>>]

\* if, elsif and else without a block, and commands that take no test
\* with one or two
TestedCommands ==
    {NoBlock("if", <<True>>), NoBlock("if", <<>>), NoBlock("elsif", <<True>>),
     NoBlock("else", <<>>), NoBlock("else", <<True>>),
     NoBlock("stop", <<True, TrueX>>),
     BlockCommand("else", <<True>>, <<Keep>>)}

IfTrueKeep == BlockCommand("if", <<True>>, <<Keep>>)

\* An if whose allof has a failing and a succeeding ihave, then an elsif
\* whose test negates a failing ihave
AllofThenNot ==
    <<BlockCommand("if",
                   <<Test("allof", <<>>, <<IhaveFileinto, IhaveNoSuch>>)>>,
                   <<Keep>>),
      BlockCommand("elsif", <<Test("not", <<>>, <<IhaveNoSuch>>)>>,
                   <<Keep>>)>>

\* Actions that use the extensions ereject, imap4flags and copy
ActionCommands ==
    {Command("ereject", <<StrArg("no")>>),
     Command("redirect", <<StrArg("user@example.org")>>),
     Command("redirect", <<TagArg(":copy"), StrArg("user@example.org")>>),
     Command("fileinto", <<StrArg("Junk")>>),
     Command("fileinto", <<TagArg(":flags"), ListArg(<<"seen", "old">>),
                           StrArg("Junk")>>),
     Command("fileinto", <<TagArg(":copy"), TagArg(":flags"),
                           ListArg(<<"seen">>), StrArg("Junk")>>)}
    \cup {Command(id, <<ListArg(<<"seen">>)>>) :
              id \in {"setflag", "addflag", "removeflag"}}

Notify(tagged) ==
    Command("notify", tagged \o <<StrArg("mailto:user@example.org")>>)

\* notify commands without :importance and with an importance inside and
\* outside "1".."3", alone and after a :from
NotifyCommands ==
    {Notify(<<>>),
     Notify(<<TagArg(":importance"), StrArg("1")>>),
     Notify(<<TagArg(":importance"), StrArg("5")>>),
     Notify(<<TagArg(":from"), StrArg("user@example.org"),
              TagArg(":importance"), StrArg("1")>>),
     Notify(<<TagArg(":from"), StrArg("2@example.org"),
              TagArg(":importance"), StrArg("5")>>),
     Notify(<<TagArg(":from"), StrArg("2@example.org"),
              TagArg(":importance"), StrArg("2"),
              TagArg(":options"), ListArg(<<"x">>),
              TagArg(":message"), StrArg("hi")>>)}

\* A notify after a require of the extension the analyser asks for
RequiredNotify == <<RequireOf("enotify"), Notify(<<>>)>>

RequireActions ==
    Command("require",
            <<ListArg(<<"fileinto", "copy", "imap4flags", "ereject">>)>>)

\* size tests with and without a tag, and with and without a number
\* after it
SizeTests ==
    {Test("size", as, <<>>) :
        as \in {<<>>, <<NumArg(1)>>, <<TagArg(":over")>>,
                <<TagArg(":over"), StrArg("x")>>,
                <<TagArg(":over"), NumArg(1)>>,
                <<TagArg(":under"), NumArg(0)>>}}

\* Commands analysed on their own and in the block of a failed ihave
ExtraCommands ==
    {BlockCommand("if", <<t>>, <<Keep>>) : t \in TagTests \cup SizeTests}
    \cup VacationCommands
    \cup ActionCommands
    \cup NotifyCommands
    \cup TestedCommands

\* Commands analysed after a require of their extension
RequiredCommands ==
    {<<RequireOf("vacation"), c>> : c \in VacationCommands}
    \cup {<<RequireActions, c>> : c \in ActionCommands}
    \cup {<<IfTrueKeep, c>> : c \in TestedCommands}
    \cup {AllofThenNot, RequiredNotify}

ExtraScripts ==
    {<<c>> : c \in ExtraCommands}
    \cup {<<BlockCommand("if", <<IhaveNoSuch>>, <<c>>)>> : c \in ExtraCommands}
    \cup RequiredCommands

Scripts ==
    {a \o b \o c : a \in FirstCommands, b \in MainCommands, c \in LastCommands}
    \cup ExtraScripts

(***************************************************************************)
(* The analysis of a script.                                               *)
(***************************************************************************)
Init ==
    /\ script \in Scripts
    /\ heap = NewHeap(Paths(script), supportedExtensions)
    /\ pc = "flag"
    /\ next = 1
    /\ pass = 1
    /\ firstErrors = <<>>
    /\ heapB = heap
    /\ lastCall = <<>>

\* The driver marks where require is permitted.
Flag ==
    /\ pc = "flag"
    /\ heap' = FlagRequire(heap, script)
    /\ pc' = IF script = <<>> THEN "resolve" ELSE "parse"
    /\ UNCHANGED <<script, next, pass, firstErrors, heapB, lastCall>>

\* The driver analyses the next top-level command.
Parse ==
    /\ pc = "parse"
    /\ heap' = ParseCommand(heap, CommandAt(Root, next), script[next],
                            Previous(script, next))
    /\ next' = next + 1
    /\ pc' = IF next = Len(script) THEN "resolve" ELSE "parse"
    /\ UNCHANGED <<script, pass, firstErrors, heapB, lastCall>>

\* The capability resolver reports what is needed and not declared.
Reconcile ==
    /\ pc = "resolve"
    /\ heap' = Resolve(heap)
    /\ pc' = "done"
    /\ firstErrors' = IF pass = 1 THEN heap'.error ELSE firstErrors
    /\ UNCHANGED <<script, next, pass, heapB, lastCall>>

Next == Flag \/ Parse \/ Reconcile

Spec == Init /\ [][Next]_vars

\* The analysis has run to its end.
Done == pc = "done"

(***************************************************************************)
(* The analysis run a second time on the same tree.                        *)
(***************************************************************************)
\* The driver starts over on the productions as the first run left them.
Reanalyse ==
    /\ pc = "done"
    /\ pass = 1
    /\ pass' = 2
    /\ pc' = "flag"
    /\ next' = 1
    /\ UNCHANGED <<script, heap, firstErrors, heapB, lastCall>>

NextTwice == Flag \/ Parse \/ Reconcile \/ Reanalyse

SpecTwice == Init /\ [][NextTwice]_vars

(***************************************************************************)
(* The same script analysed against two sets of supported extensions,      *)
(* the server's and a larger one.                                          *)
(***************************************************************************)
\* Extensions the server does not support, which a larger set may add
ExtraExtensions == {"nosuchext"}

InitMono ==
    /\ script \in Scripts
    /\ heap = NewHeap(Paths(script), supportedExtensions)
    /\ \E more \in SUBSET ExtraExtensions :
           heapB = NewHeap(Paths(script), supportedExtensions \cup more)
    /\ pc = "flag"
    /\ next = 1
    /\ pass = 1
    /\ firstErrors = <<>>
    /\ lastCall = <<>>

FlagBoth ==
    /\ pc = "flag"
    /\ heap' = FlagRequire(heap, script)
    /\ heapB' = FlagRequire(heapB, script)
    /\ pc' = IF script = <<>> THEN "resolve" ELSE "parse"
    /\ UNCHANGED <<script, next, pass, firstErrors, lastCall>>

ParseBoth ==
    /\ pc = "parse"
    /\ heap' = ParseCommand(heap, CommandAt(Root, next), script[next],
                            Previous(script, next))
    /\ heapB' = ParseCommand(heapB, CommandAt(Root, next), script[next],
                             Previous(script, next))
    /\ next' = next + 1
    /\ pc' = IF next = Len(script) THEN "resolve" ELSE "parse"
    /\ UNCHANGED <<script, pass, firstErrors, lastCall>>

ReconcileBoth ==
    /\ pc = "resolve"
    /\ heap' = Resolve(heap)
    /\ heapB' = Resolve(heapB)
    /\ pc' = "done"
    /\ firstErrors' = heap'.error
    /\ UNCHANGED <<script, next, pass, lastCall>>

NextMono == FlagBoth \/ ParseBoth \/ ReconcileBoth

SpecMono == InitMono /\ [][NextMono]_vars

(***************************************************************************)
(* SieveProduction called directly: setError and setIhaveFailed on a       *)
(* command, its block and a command of that block.                         *)
(***************************************************************************)
\* Errors stored and failures marked in one run of direct calls
MaxStores == 5

ApiScript == <<BlockCommand("if", <<True>>, <<Keep>>)>>

ApiProductions == {<<1>>, <<1, -1>>, <<1, -1, 1>>}

ApiErrors == {"", "first error", "second error"}

InitApi ==
    /\ script = ApiScript
    /\ heap = NewHeap(Paths(script), supportedExtensions)
    /\ pc = "api"
    /\ next = 1
    /\ pass = 1
    /\ firstErrors = <<>>
    /\ heapB = heap
    /\ lastCall = <<>>

CallSetError ==
    /\ pc = "api"
    /\ heap.clock < MaxStores
    /\ \E p \in ApiProductions, e \in ApiErrors :
           /\ heap' = SetError(heap, p, e)
           /\ lastCall' = <<"setError", p, e>>
    /\ UNCHANGED <<script, pc, next, pass, firstErrors, heapB>>

CallSetIhaveFailed ==
    /\ pc = "api"
    /\ heap.clock < MaxStores
    /\ \E p \in ApiProductions :
           /\ heap' = SetIhaveFailed(heap, p)
           /\ lastCall' = <<"setIhaveFailed", p>>
    /\ UNCHANGED <<script, pc, next, pass, firstErrors, heapB>>

NextApi == CallSetError \/ CallSetIhaveFailed

SpecApi == InitApi /\ [][NextApi]_vars

(***************************************************************************)
(* SieveProduction called directly on productions that have no parser yet: *)
(* setError, setIhaveFailed and setParser.                                 *)
(***************************************************************************)
\* Errors stored and failures marked in one run of these calls
MaxRegistryStores == 3

InitRegistry ==
    /\ script = ApiScript
    /\ heap = [NewHeap(Paths(script), supportedExtensions)
                  EXCEPT !.parser = {}]
    /\ pc = "api"
    /\ next = 1
    /\ pass = 1
    /\ firstErrors = <<>>
    /\ heapB = heap
    /\ lastCall = <<>>

CallSetParser ==
    /\ pc = "api"
    /\ \E p \in ApiProductions, attached \in BOOLEAN :
           /\ heap' = SetParser(heap, p, attached)
           /\ lastCall' = <<"setParser", p, attached>>
    /\ UNCHANGED <<script, pc, next, pass, firstErrors, heapB>>

RegistrySetError ==
    /\ heap.clock < MaxRegistryStores
    /\ CallSetError

RegistrySetIhaveFailed ==
    /\ heap.clock < MaxRegistryStores
    /\ CallSetIhaveFailed

NextRegistry == RegistrySetError \/ RegistrySetIhaveFailed \/ CallSetParser

SpecRegistry == InitRegistry /\ [][NextRegistry]_vars

(***************************************************************************)
(* SieveArgumentList called directly: findTag, numberRemainingArguments    *)
(* and the take functions on the arguments of a command in the block of an *)
(* if, the block being ihave-failed or not.  heapB is the heap before the  *)
(* last call, and lastCall its name, argument and result.                  *)
(***************************************************************************)
\* Arguments in one argument list
MaxArgs == 3

\* The largest ordinal given to a take function
MaxTake == 2

\* Calls made on one argument list; `next` counts them
MaxCalls == 3

ArgChoices == {TagArg(":a"), NumArg(1), StrArg("s"), ListArg(<<"s", "t">>)}

TagChoices == {":a"}

ArgsScript(as) == <<BlockCommand("if", <<True>>, <<Command("keep", as)>>)>>

\* The argument list the calls are made on
ArgsList == ArgsOf(<<1, -1, 1>>)

ArgsGiven == script[1].block[1].arguments.a

InitArgs ==
    /\ \E as \in SeqsUpTo(ArgChoices, MaxArgs) : script = ArgsScript(as)
    /\ \E failed \in BOOLEAN :
           heap = IF failed
                  THEN SetIhaveFailed(
                           NewHeap(Paths(script), supportedExtensions),
                           BlockOf(<<1>>))
                  ELSE NewHeap(Paths(script), supportedExtensions)
    /\ pc = "args"
    /\ next = 1
    /\ pass = 1
    /\ firstErrors = <<>>
    /\ heapB = heap
    /\ lastCall = <<>>

\* The call `name` with argument x has returned result.r and left result.h
Called(name, x, result) ==
    /\ pc = "args"
    /\ next <= MaxCalls
    /\ next' = next + 1
    /\ heap' = result.h
    /\ heapB' = heap
    /\ lastCall' = <<name, x, result.r>>
    /\ UNCHANGED <<script, pc, pass, firstErrors>>

CallFindTag ==
    \E tag \in TagChoices :
        Called("findTag", tag, FindTag(heap, ArgsList, ArgsGiven, tag))

CallNumberRemainingArguments ==
    Called("numberRemainingArguments", 0,
           [h |-> NumberRemainingArguments(heap, ArgsList, ArgsGiven),
            r |-> 0])

CallTakeString ==
    \E n \in 1..MaxTake :
        Called("takeString", n, TakeString(heap, ArgsList, ArgsGiven, n))

CallTakeStringList ==
    \E n \in 1..MaxTake :
        Called("takeStringList", n,
               TakeStringList(heap, ArgsList, ArgsGiven, n))

CallTakeNumber ==
    \E n \in 1..MaxTake :
        Called("takeNumber", n, TakeNumber(heap, ArgsList, ArgsGiven, n))

CallTakeArgument ==
    \E n \in 1..MaxTake :
        Called("takeArgument", n,
               [h |-> heap, r |-> TakeArgument(heap, ArgsList, n)])

NextArgs ==
    \/ CallFindTag
    \/ CallNumberRemainingArguments
    \/ CallTakeString
    \/ CallTakeStringList
    \/ CallTakeNumber
    \/ CallTakeArgument

SpecArgs == InitArgs /\ [][NextArgs]_vars

(***************************************************************************)
(* Properties.                                                             *)
(***************************************************************************)
\* q is p or lies below p in the tree.
Under(p, q) == Len(q) >= Len(p) /\ SubSeq(q, 1, Len(p)) = p

\* The arguments of the script, and the command or test an argument is of
ArgumentsOfScript == {x \in Productions(script) : x.kind = "argument"}

Owner(pa) == Parent(Parent(pa))

\* An ihave test whose first argument is its string list
WellFormedIhave(t) ==
    /\ t.identifier = "ihave"
    /\ t.arguments.a # <<>>
    /\ t.arguments.a[1].hasList
    /\ t.arguments.a[1].tag = ""
    /\ t.arguments.a[1].number = 0

IhaveNames(t) == Range(t.arguments.a[1].list)

\* An analysed if/elsif with a block whose single test is such an ihave
IhaveGuarded(x) ==
    /\ x.kind = "command"
    /\ x.path \in heap.visited
    /\ x.node.identifier \in {"if", "elsif"}
    /\ x.node.hasBlock
    /\ Len(x.node.arguments.t) = 1
    /\ WellFormedIhave(x.node.arguments.t[1])

\* C1, as stated: after the analysis every argument of every command and
\* test of the tree is marked parsed or carries an error.
C1_EveryArgumentParsedOrBad ==
    Done => \A x \in ArgumentsOfScript :
                Parsed(heap, x.path) \/ Error(heap, x.path) # ""

\* C1, amended: after the analysis every argument of a command or test on
\* which parse() ran, and which is not inside an ihave-failed scope, is
\* marked parsed or carries an error; if in addition no production carries
\* an error, every such argument is marked parsed.
C1_AnalysedArgumentParsedOrBad ==
    Done => \A x \in ArgumentsOfScript :
                (Owner(x.path) \in heap.visited /\ ~InFailedScope(heap, x.path))
                => /\ Parsed(heap, x.path) \/ Error(heap, x.path) # ""
                   /\ heap.error = <<>> => Parsed(heap, x.path)

\* An analysed command outside any ihave-failed scope has an argument the
\* final sweep flagged, and one that was taken and marked parsed.
C1_Witness ==
    /\ Done
    /\ \E x \in ArgumentsOfScript :
           /\ Owner(x.path) \in heap.visited
           /\ ~InFailedScope(heap, x.path)
           /\ ~Parsed(heap, x.path)
           /\ Error(heap, x.path) = "Why is this string/list here?"
    /\ \E x \in ArgumentsOfScript :
           /\ ~InFailedScope(heap, x.path)
           /\ Parsed(heap, x.path)
           /\ Error(heap, x.path) = ""

\* C2, as stated: a second analysis of the same tree, on the productions as
\* the first left them, ends with the same errors on the same productions.
C2_SecondRunSameErrors == (Done /\ pass = 2) => heap.error = firstErrors

\* C2, amended: a second analysis of the same tree, on the productions as
\* the first left them, keeps every error of the first on its production
\* and may add errors on productions that had none.
C2_SecondRunKeepsErrors ==
    (Done /\ pass = 2) =>
        \A p \in DOMAIN firstErrors :
            p \in DOMAIN heap.error /\ heap.error[p] = firstErrors[p]

\* The second analysis has ended: a command has the error the first
\* analysis gave it for its string, and its argument list, whose string the
\* first marked parsed, has got "Missing string argument" from the second.
C2_Witness ==
    /\ Done
    /\ pass = 2
    /\ \E p \in DOMAIN firstErrors :
           /\ heap.error[p] = firstErrors[p]
           /\ ArgsOf(p) \in DOMAIN heap.error \ DOMAIN firstErrors
           /\ heap.error[ArgsOf(p)] = "Missing string argument"

\* C3, as stated: a script without errors against the supported set stays
\* without errors against any larger supported set.
C3_Monotone == Done => (heap.error = <<>> => heapB.error = <<>>)

\* C3, amended: a script that ends without errors and without any
\* production marked ihave-failed against the supported set ends without
\* errors against any larger supported set.
C3_MonotoneWithoutFailedIhave ==
    Done => ((heap.error = <<>> /\ heap.ihaveFailed = {}) => heapB.error = <<>>)

\* A script starting with a permitted require and going on with an if is
\* analysed without error and without ihave failure against the server's
\* set and against a strictly larger one.
C3_Witness ==
    /\ Done
    /\ heap.error = <<>>
    /\ heap.ihaveFailed = {}
    /\ heapB.supported # heap.supported
    /\ Len(script) >= 2
    /\ script[1].identifier = "require"
    /\ script[2].identifier = "if"

\* The extension the analysis of a command or test needs, "" if none
NeededBy(x) ==
    IF x.kind = "command" /\ x.node.identifier = "fileinto" THEN "fileinto"
    ELSE IF x.kind = "command" /\ x.node.identifier = "reject" THEN "reject"
    ELSE IF x.kind = "test" /\ x.node.identifier = "ihave" THEN "ihave"
    ELSE ""

C5_RequireDeclaresInScript ==
    Done =>
        ((/\ script # <<>>
          /\ script[1].identifier = "require"
          /\ <<1>> \in heap.require
          /\ script[1].arguments.a # <<>>
          /\ script[1].arguments.a[1].hasList)
         => \A e \in Range(script[1].arguments.a[1].list) \cap heap.supported :
                /\ e \in AddedExtensions(heap, Root)
                /\ \A n \in heap.needed : n[2] # e)

C7_NoErrorInFailedScope ==
    Done => \A p \in DOMAIN heap.error : ~InFailedScope(heap, p)

\* C7, amended: an error carried by a production that is ihave-failed or
\* has an ihave-failed ancestor was stored before that production or
\* ancestor was marked ihave-failed; once the mark is there no error is
\* stored, and an error stored earlier is kept, not cleared.
C7_ErrorsInFailedScopePredateIt ==
    \A p \in DOMAIN heap.error :
        \A q \in Chain(p) :
            IhaveFailed(heap, q) => heap.errAt[p] < heap.failAt[q]

\* After the analysis a production inside an ihave-failed scope still
\* carries the error stored on it before the failure was noticed.
C7_Witness ==
    /\ Done
    /\ \E p \in DOMAIN heap.error : InFailedScope(heap, p)

C9_FirstErrorWins ==
    [][\A p \in ApiProductions :
           (Error(heap, p) # "" /\ Error(heap', p) # Error(heap, p))
           => lastCall' = <<"setError", p, "">>]_vars

\* A production outside any ihave-failed scope still carries its first
\* error right after setError was called on it with a second one.
C9_Witness ==
    \E p \in ApiProductions :
        /\ ~InFailedScope(heap, p)
        /\ Error(heap, p) = "first error"
        /\ lastCall = <<"setError", p, "second error">>

\* C10, as stated: an analysed require command in a position where require
\* is not permitted carries an error after the analysis and leaves the
\* added extensions of its parent as they were.
C10_MisplacedRequireIsAnError ==
    Done =>
        \A r \in heap.requireLog :
            r.path \notin heap.require
            => Error(heap, r.path) # "" /\ r.before = r.after

\* C10, amended: an analysed require command in a position where require
\* is not permitted leaves the added extensions of its parent as they
\* were and, unless it is inside an ihave-failed scope, carries an error
\* after the analysis.
C10_MisplacedRequireOutsideFailedScope ==
    Done =>
        \A r \in heap.requireLog :
            r.path \notin heap.require
            => /\ r.before = r.after
               /\ ~InFailedScope(heap, r.path) => Error(heap, r.path) # ""

\* A require naming only supported extensions was analysed inside a block,
\* outside any ihave-failed scope, and carries an error.
C10_Witness ==
    /\ Done
    /\ \E x \in Productions(script) :
           /\ x.kind = "command"
           /\ x.node = RequireFileinto
           /\ Len(x.path) > 1
           /\ x.path \in heap.visited
           /\ x.path \notin heap.require
           /\ ~InFailedScope(heap, x.path)
           /\ Error(heap, x.path) = "require is only permitted as the first command."

\* The identifier of the sibling just before command x in its sequence,
\* empty for the first command of a sequence
PreviousSibling(x) ==
    LET i == x.path[Len(x.path)]
    IN  IF i = 1
        THEN ""
        ELSE (CHOOSE y \in Productions(script) :
                  y.path = CommandAt(Parent(x.path), i - 1)).node.identifier

\* The else and elsif commands of the script outside any ihave-failed scope
ElseCommands ==
    {x \in Productions(script) :
        /\ x.kind = "command"
        /\ x.node.identifier \in {"elsif", "else"}
        /\ ~InFailedScope(heap, x.path)}

OrderError(x) == x.node.identifier \o " is only permitted after if/elsif"

\* C11, as stated: in every command sequence, outside any ihave-failed
\* scope, an elsif or else carries "<id> is only permitted after if/elsif"
\* if and only if the sibling just before it is not an if or elsif.
C11_ElseOnlyAfterIf ==
    Done => \A x \in ElseCommands :
                (Error(heap, x.path) = OrderError(x))
                    <=> (PreviousSibling(x) \notin {"if", "elsif"})

\* C11, amended: the same of every elsif or else that was analysed; the
\* block of a command that takes no block is never analysed.
C11_AnalysedElseOnlyAfterIf ==
    Done => \A x \in ElseCommands :
                x.path \in heap.visited
                => ((Error(heap, x.path) = OrderError(x))
                        <=> (PreviousSibling(x) \notin {"if", "elsif"}))

\* An analysed else follows an if and carries no error, and an analysed
\* else inside a block follows an else and carries the error.
C11_Witness ==
    /\ Done
    /\ \E x \in ElseCommands :
           /\ x.path \in heap.visited
           /\ PreviousSibling(x) = "if"
           /\ Error(heap, x.path) = ""
    /\ \E x \in ElseCommands :
           /\ Len(x.path) > 1
           /\ x.path \in heap.visited
           /\ PreviousSibling(x) = "else"
           /\ Error(heap, x.path) = OrderError(x)

\* The tags of which allowOneTag allows a test one, and the arguments of
\* test x that carry one of them
ExclusiveTags(x) ==
    IF x.node.identifier = "header" THEN Range(MatchTypeTags)
    ELSE IF x.node.identifier = "size" THEN {":over", ":under"}
    ELSE {}

Exclusive(x) ==
    {k \in DOMAIN x.node.arguments.a :
        x.node.arguments.a[k].tag \in ExclusiveTags(x)}

\* The errors allowOneTag can put on an argument of test x
ExclusionErrors(x) ==
    {"Mutually exclusive tags used"}
    \cup {"Tag " \o x.node.arguments.a[j].tag \o " conflicts with "
              \o x.node.arguments.a[k].tag : j, k \in Exclusive(x)}

\* The analysed tests on whose arguments allowOneTag has been called
TagTested ==
    {x \in Productions(script) :
        /\ x.kind = "test"
        /\ x.path \in heap.visited
        /\ x.node.identifier \in {"header", "size"}}

ErrorOfArgument(x, k) == Error(heap, ArgAt(ArgsOf(x.path), k))

HeaderIsContains == <<BlockCommand("if", <<HeaderXY(<<TagArg(":is"), TagArg(":contains")>>)>>, <<Keep>>)>>

\* C12, as stated: when two or more arguments of a test carry a tag of the
\* set given to allowOneTag, each of them carries an error afterwards, the
\* first "Mutually exclusive tags used"; with at most one, allowOneTag
\* sets no error; `if header :is :contains "x" "y" { keep; }` ends with
\* one error on :is, one on :contains and no other.
C12_ExclusiveTagsAllFlagged ==
    Done =>
        /\ \A x \in TagTested :
               IF Cardinality(Exclusive(x)) >= 2
               THEN /\ \A k \in Exclusive(x) : ErrorOfArgument(x, k) # ""
                    /\ ErrorOfArgument(x, Min(Exclusive(x)))
                           = "Mutually exclusive tags used"
               ELSE \A k \in DOMAIN x.node.arguments.a :
                        ErrorOfArgument(x, k) \notin ExclusionErrors(x)
        /\ script = HeaderIsContains
           => heap.error = (<<1, 0, -1, 0, 1>> :> "Mutually exclusive tags used")
                           @@ (<<1, 0, -1, 0, 2>> :> "Tag :is conflicts with :contains")


\* The analysed vacation commands of the script outside any ihave-failed
\* scope
Vacations ==
    {x \in Productions(script) :
        /\ x.kind = "command"
        /\ x.node.identifier = "vacation"
        /\ x.path \in heap.visited
        /\ ~InFailedScope(heap, x.path)}

\* The index of the :days tag of vacation x when a number follows it, or 0
DaysTag(x) ==
    LET as == x.node.arguments.a
        at == {k \in 1..(Len(as) - 1) :
                  /\ as[k].tag = ":days"
                  /\ as[k + 1].tag = ""
                  /\ ~as[k + 1].hasList}
    IN  IF at = {} THEN 0 ELSE Min(at)

DaysGiven(x) == x.node.arguments.a[DaysTag(x) + 1].number

\* The productions of command x that carry "Number must be 1..365"
RangeErrors(x) ==
    {q \in DOMAIN heap.error :
        /\ heap.error[q] = "Number must be 1..365"
        /\ q \in {x.path, ArgsOf(x.path)}
                  \cup {ArgAt(ArgsOf(x.path), k) :
                            k \in DOMAIN x.node.arguments.a}}

VacationDays400 ==
    <<RequireOf("vacation"),
      Vacation(<<TagArg(":days"), NumArg(400), StrArg("Out")>>)>>

C14_RegistryHoldsEveryError ==
    /\ \A p \in ApiProductions :
           (Error(heap, p) # "" /\ p \in heap.parser) => p \in heap.bad
    /\ \A p \in ApiProductions :
           p \notin DOMAIN heap.errAt => p \notin heap.bad

\* setParser has just attached the parser to a production whose error was
\* set before, and another production, inside a failed scope with the
\* parser attached, has no error.
C14_Witness ==
    /\ Len(lastCall) = 3
    /\ lastCall[1] = "setParser"
    /\ lastCall[3]
    /\ Error(heap, lastCall[2]) # ""
    /\ heap.errAt[lastCall[2]] < heap.clock
    /\ lastCall[2] \in heap.bad
    /\ \E q \in ApiProductions \cap heap.parser :
           /\ InFailedScope(heap, q)
           /\ q \notin DOMAIN heap.errAt


\* The analysed commands of the script, outside any ihave-failed scope,
\* whose identifier is in ids
Analysed(ids) ==
    {x \in Productions(script) :
        /\ x.kind = "command"
        /\ x.node.identifier \in ids
        /\ x.path \in heap.visited
        /\ ~InFailedScope(heap, x.path)}

\* The extensions command x has registered as needed
NeedsOf(x) == {n[2] : n \in {m \in heap.needed : m[1] = x.path}}

\* C15: an analysed ereject command on whose parent chain no node
\* declares "ereject" has registered "ereject", and no other name, as
\* needed.
C15_ErejectNeedsEreject ==
    Done => \A x \in Analysed({"ereject"}) :
                ~Declared(heap, x.path, "ereject")
                => NeedsOf(x) = {"ereject"}

\* C16: an analysed setflag, addflag or removeflag command on whose parent
\* chain no node declares "imap4flags" has registered "imap4flags" as
\* needed.
C16_FlagCommandsNeedImap4flags ==
    Done => \A x \in Analysed({"setflag", "addflag", "removeflag"}) :
                ~Declared(heap, x.path, "imap4flags")
                => "imap4flags" \in NeedsOf(x)

\* C17: an analysed fileinto or redirect command that uses the :copy tag
\* and on whose parent chain no node declares "copy" has registered "copy"
\* as needed; a command without :copy has not.
C17_CopyTagNeedsCopy ==
    Done => \A x \in Analysed({"fileinto", "redirect"}) :
                IF TagPositions(x.node.arguments.a, ":copy") # {}
                THEN ~Declared(heap, x.path, "copy")
                     => "copy" \in NeedsOf(x)
                ELSE "copy" \notin NeedsOf(x)

\* The fileinto commands of the shape [:copy] :flags <string-list>
\* <mailbox> whose mailbox name is valid and does not start with "INBOX."
FlaggedFileintos ==
    {x \in Analysed({"fileinto"}) :
        LET as == x.node.arguments.a
            n  == Len(as)
        IN  /\ n \in {3, 4}
            /\ n = 4 => as[1].tag = ":copy"
            /\ as[n - 2].tag = ":flags"
            /\ as[n - 1].hasList
            /\ as[n].hasList /\ Len(as[n].list) = 1
            /\ ValidName("/" \o as[n].list[1])
            /\ ~StartsWithInbox(as[n].list[1])}

\* C18: after the analysis of such a fileinto every argument is marked
\* parsed, no argument and not the argument list carries an error, and
\* the command carries none when the script's require lists what it needs.
C18_FileintoFlagsAccepted ==
    Done => \A x \in FlaggedFileintos :
                /\ \A k \in DOMAIN x.node.arguments.a :
                       /\ ArgAt(ArgsOf(x.path), k) \in heap.parsed
                       /\ ErrorOfArgument(x, k) = ""
                /\ Error(heap, ArgsOf(x.path)) = ""
                /\ NeedsOf(x) \subseteq RequiredNames(heap, script)
                   => Error(heap, x.path) = ""


\* The index of the :importance tag of command x when a string follows
\* it, or 0
ImportanceTag(x) ==
    LET as == x.node.arguments.a
        at == {k \in 1..(Len(as) - 1) :
                  /\ as[k].tag = ":importance"
                  /\ as[k + 1].hasList
                  /\ Len(as[k + 1].list) = 1}
    IN  IF at = {} THEN 0 ELSE Min(at)

ImportanceGiven(x) == x.node.arguments.a[ImportanceTag(x) + 1].list[1]

\* The productions of command x that carry the importance error
ImportanceErrors(x) ==
    {q \in DOMAIN heap.error :
        /\ heap.error[q] = "Importance must be 1, 2 or 3"
        /\ q \in {x.path, ArgsOf(x.path)}
                  \cup {ArgAt(ArgsOf(x.path), k) :
                            k \in DOMAIN x.node.arguments.a}}

\* C19: an analysed notify command without :importance has no importance
\* error; one whose :importance is followed by "1", "2" or "3" has none
\* either, with or without :from; one whose :importance is followed by
\* any other string has the error "Importance must be 1, 2 or 3".
C19_ImportanceReadFromItsTag ==
    Done => \A x \in Analysed({"notify"}) :
                IF TagPositions(x.node.arguments.a, ":importance") = {}
                THEN ImportanceErrors(x) = {}
                ELSE ImportanceTag(x) # 0
                     => (ImportanceErrors(x) = {}
                            <=> ImportanceGiven(x) \in {"1", "2", "3"})


\* The analysed size tests of the script outside any ihave-failed scope
SizeTested ==
    {x \in Productions(script) :
        /\ x.kind = "test"
        /\ x.node.identifier = "size"
        /\ x.path \in heap.visited
        /\ ~InFailedScope(heap, x.path)}

\* Test x has exactly one of :over and :under, and a number follows it
OneLimit(x) ==
    LET as == x.node.arguments.a
        at == TagPositions(as, ":over") \cup TagPositions(as, ":under")
    IN  /\ Cardinality(at) = 1
        /\ \A k \in at : /\ k < Len(as)
                         /\ as[k + 1].tag = ""
                         /\ ~as[k + 1].hasList

\* C20: an analysed size test that does not have exactly one of :over and
\* :under followed by a number, the test without arguments included, ends
\* the analysis with an error on the test, its argument list or one of
\* its arguments.
C20_SizeNeedsOneLimit ==
    Done => \A x \in SizeTested :
                ~OneLimit(x)
                => \/ Error(heap, x.path) # ""
                   \/ Error(heap, ArgsOf(x.path)) # ""
                   \/ \E k \in DOMAIN x.node.arguments.a :
                          ErrorOfArgument(x, k) # ""

\* The same of the size tests that have at least one argument.
SizeWithArgumentsNeedsOneLimit ==
    Done => \A x \in SizeTested :
                (~OneLimit(x) /\ x.node.arguments.a # <<>>)
                => \/ Error(heap, x.path) # ""
                   \/ Error(heap, ArgsOf(x.path)) # ""
                   \/ \E k \in DOMAIN x.node.arguments.a :
                          ErrorOfArgument(x, k) # ""


\* The last call was `name`
LastWas(name) == lastCall # <<>> /\ lastCall[1] = name

\* C21, as stated: findTag returns the first argument whose tag is the
\* name and marks it parsed; when the tag occurs twice or more, every
\* occurrence carries an error afterwards; when it does not occur, findTag
\* returns null and changes no parsed flag and no error.
C21_FindTagFlagsDuplicates ==
    LastWas("findTag") =>
        LET at == TagPositions(ArgsGiven, lastCall[2])
        IN  IF at = {}
            THEN /\ lastCall[3] = 0
                 /\ heap.parsed = heapB.parsed
                 /\ heap.error = heapB.error
            ELSE /\ lastCall[3] = Min(at)
                 /\ Parsed(heap, ArgAt(ArgsList, Min(at)))
                 /\ Cardinality(at) >= 2
                    => \A k \in at : Error(heap, ArgAt(ArgsList, k)) # ""

\* C21, amended: the same, the occurrences carrying an error when the
\* argument list is outside any ihave-failed scope.
C21_FindTagFlagsDuplicatesInScope ==
    LastWas("findTag") =>
        LET at == TagPositions(ArgsGiven, lastCall[2])
        IN  IF at = {}
            THEN /\ lastCall[3] = 0
                 /\ heap.parsed = heapB.parsed
                 /\ heap.error = heapB.error
            ELSE /\ lastCall[3] = Min(at)
                 /\ Parsed(heap, ArgAt(ArgsList, Min(at)))
                 /\ (Cardinality(at) >= 2 /\ ~InFailedScope(heap, ArgsList))
                    => \A k \in at : Error(heap, ArgAt(ArgsList, k)) # ""

\* findTag has returned the first of three occurrences of :a, outside any
\* failed scope, and each of the three carries "Tag occurs twice: :a".
C21_Witness ==
    /\ LastWas("findTag")
    /\ lastCall[2] = ":a"
    /\ lastCall[3] = 1
    /\ TagPositions(ArgsGiven, ":a") = {1, 2, 3}
    /\ ~InFailedScope(heap, ArgsList)
    /\ \A k \in {1, 2, 3} :
           Error(heap, ArgAt(ArgsList, k)) = "Tag occurs twice: :a"


TakeCalls == {"takeString", "takeStringList", "takeNumber"}

\* The error a take function sets when the numbered argument is missing
MissingError(name) ==
    CASE name = "takeString" -> "Missing string argument"
      [] name = "takeStringList" -> "Missing string/list argument"
      [] name = "takeNumber" -> "Missing numeric argument"

\* Argument arg has the shape the take function `name` asserts
HasShape(name, arg) ==
    CASE name = "takeString" -> arg.hasList /\ Len(arg.list) = 1
      [] name = "takeStringList" -> arg.hasList /\ arg.list # <<>>
      [] name = "takeNumber" -> arg.tag = "" /\ ~arg.hasList

\* The value the take function `name` returns for argument arg
ValueOf(name, arg) ==
    CASE name = "takeString" -> IF arg.hasList THEN arg.list[1] ELSE ""
      [] name = "takeStringList" -> arg.list
      [] name = "takeNumber" -> arg.number

EmptyValue(name) ==
    CASE name = "takeString" -> ""
      [] name = "takeStringList" -> <<>>
      [] name = "takeNumber" -> 0

\* The index of the n-th argument, in source order, among those that were
\* not marked parsed when numberRemainingArguments built numbering num;
\* 0 when there are fewer than n
NthOf(num, n) == IF n <= Len(num) THEN num[n] ELSE 0

\* What C22 says of numberRemainingArguments and of the take functions,
\* the errors being asked for when `errors` holds
TakeDiscipline(errors) ==
    LET num == Numbered(heapB, ArgsList)
    IN  /\ LastWas("numberRemainingArguments") =>
               LET now == Numbered(heap, ArgsList)
               IN  /\ \A j, k \in DOMAIN now : j < k => now[j] < now[k]
                   /\ Range(now) = {k \in DOMAIN ArgsGiven :
                                       ~Parsed(heapB, ArgAt(ArgsList, k))}
                   /\ heap.parsed = heapB.parsed
        /\ (lastCall # <<>> /\ lastCall[1] \in TakeCalls) =>
               LET name == lastCall[1]
                   i == NthOf(num, lastCall[2])
               IN  /\ Numbered(heap, ArgsList) = num
                   /\ IF i # 0
                      THEN /\ Parsed(heap, ArgAt(ArgsList, i))
                           /\ lastCall[3] = ValueOf(name, ArgsGiven[i])
                           /\ (errors /\ ~HasShape(name, ArgsGiven[i]))
                              => Error(heap, ArgAt(ArgsList, i)) # ""
                           /\ Error(heap, ArgsList) = Error(heapB, ArgsList)
                      ELSE /\ lastCall[3] = EmptyValue(name)
                           /\ heap.parsed = heapB.parsed
                           /\ errors
                              => /\ Error(heap, ArgsList) # ""
                                 /\ Error(heapB, ArgsList) = ""
                                    => Error(heap, ArgsList)
                                           = MissingError(name)

\* C22, as stated: numberRemainingArguments numbers, in source order, the
\* arguments not marked parsed; takeString(n), takeStringList(n) and
\* takeNumber(n) address the n-th of them whatever was taken in between,
\* mark it parsed, return its value and set an error on it if it has not
\* the shape asked for; with fewer than n numbered arguments they set
\* the "Missing ... argument" error on the argument list and return an
\* empty value.
C22_TakeAddressesNthNumbered == TakeDiscipline(TRUE)

\* C22, amended: the same, the two errors being set when the argument
\* list is outside any ihave-failed scope.
C22_TakeAddressesNthNumberedInScope ==
    TakeDiscipline(~InFailedScope(heap, ArgsList))

\* After a numbering of at least two arguments and a take of the first,
\* a take of the second has marked the second numbered argument parsed,
\* outside any ihave-failed scope.
C22_Witness ==
    /\ lastCall # <<>>
    /\ lastCall[1] \in TakeCalls
    /\ lastCall[2] = 2
    /\ ~InFailedScope(heap, ArgsList)
    /\ Len(Numbered(heap, ArgsList)) >= 2
    /\ Parsed(heapB, ArgAt(ArgsList, Numbered(heap, ArgsList)[1]))
    /\ ~Parsed(heapB, ArgAt(ArgsList, Numbered(heap, ArgsList)[2]))
    /\ Parsed(heap, ArgAt(ArgsList, Numbered(heap, ArgsList)[2]))


\* The commands of the script outside any ihave-failed scope
Commands ==
    {x \in Productions(script) :
        x.kind = "command" /\ ~InFailedScope(heap, x.path)}

TakesBlock(x) == x.node.identifier \in {"if", "elsif", "else"}

\* The commands of the block of command x that have been analysed
AnalysedInBlock(x) ==
    {i \in DOMAIN x.node.block :
        CommandAt(BlockOf(x.path), i) \in heap.visited}

NeedsBlock(x) ==
    "Command " \o x.node.identifier \o " requires a subsidiary {..} block"

UsesNoBlock(x) ==
    "Command " \o x.node.identifier
        \o " does not use a subsidiary command block"

\* Command x has an error stored before its block is looked at: it is an
\* elsif or else not after if/elsif, or an if or elsif without exactly
\* one test
ErrorBeforeBlock(x) ==
    \/ /\ x.node.identifier \in {"elsif", "else"}
       /\ PreviousSibling(x) \notin {"if", "elsif"}
    \/ /\ x.node.identifier \in {"if", "elsif"}
       /\ Len(x.node.arguments.t) # 1

\* C23, as stated: outside ihave-failed scopes an if, elsif or else
\* without a block carries "Command <id> requires a subsidiary {..}
\* block"; any other command with a block has "Command <id> does not use
\* a subsidiary command block" on the block and no command of the block is
\* analysed; every command of a required block that is present is
\* analysed.
C23_BlockDiscipline ==
    Done => \A x \in Commands :
                IF TakesBlock(x)
                THEN IF ~x.node.hasBlock
                     THEN Error(heap, x.path) = NeedsBlock(x)
                     ELSE AnalysedInBlock(x) = DOMAIN x.node.block
                ELSE x.node.hasBlock
                     => /\ Error(heap, BlockOf(x.path)) = UsesNoBlock(x)
                        /\ AnalysedInBlock(x) = {}

\* C23, amended: the same of every command that was analysed, a command
\* without its block carrying the error stored before the block was
\* looked at when there is one.
C23_BlockDisciplineOfAnalysed ==
    Done => \A x \in Commands :
                x.path \in heap.visited
                => IF TakesBlock(x)
                   THEN IF ~x.node.hasBlock
                        THEN IF ErrorBeforeBlock(x)
                             THEN Error(heap, x.path)
                                      \notin {"", NeedsBlock(x)}
                             ELSE Error(heap, x.path) = NeedsBlock(x)
                        ELSE AnalysedInBlock(x) = DOMAIN x.node.block
                   ELSE x.node.hasBlock
                        => /\ Error(heap, BlockOf(x.path)) = UsesNoBlock(x)
                           /\ AnalysedInBlock(x) = {}

\* An analysed else without a block, after an if, carries the block
\* error, and every command of the block of an analysed if has been
\* analysed.
C23_Witness ==
    /\ Done
    /\ \E x \in Commands :
           /\ x.path \in heap.visited
           /\ x.node.identifier = "else"
           /\ ~x.node.hasBlock
           /\ ~ErrorBeforeBlock(x)
           /\ Error(heap, x.path) = NeedsBlock(x)
    /\ \E x \in Commands :
           /\ x.path \in heap.visited
           /\ x.node.identifier = "if"
           /\ x.node.hasBlock
           /\ AnalysedInBlock(x) = DOMAIN x.node.block

\* The tests of commands that take no test, outside ihave-failed scopes
UnusedTests ==
    {y \in [command : {x \in Commands :
                          /\ x.path \in heap.visited
                          /\ x.node.identifier \notin {"if", "elsif"}},
            test : 1..2] :
        y.test \in DOMAIN y.command.node.arguments.t}

\* C24: outside ihave-failed scopes, every test in the argument list of an
\* analysed command other than if and elsif carries "Command <id> does
\* not use tests" at the end of the analysis.
C24_TestsOfOtherCommandsFlagged ==
    Done => \A y \in UnusedTests :
                Error(heap, TestAt(ArgsOf(y.command.path), y.test))
                    = "Command " \o y.command.node.identifier
                          \o " does not use tests"


\* The analysed tests of the script whose identifier is in ids
AnalysedTests(ids) ==
    {x \in Productions(script) :
        /\ x.kind = "test"
        /\ x.node.identifier \in ids
        /\ x.path \in heap.visited}

\* The paths of the tests in the argument list of command or test x
TestsOf(x) ==
    {TestAt(ArgsOf(x.path), j) : j \in DOMAIN x.node.arguments.t}

\* C25: at the end of the analysis an analysed allof or anyof is
\* ihave-failed iff one of its sub-tests is, and has added every extension
\* its sub-tests have added; the block of an analysed if or elsif is
\* ihave-failed iff a test of the command is; an analysed not is never
\* ihave-failed.
C25_IhavePropagatesThroughAllof ==
    Done =>
        /\ \A x \in AnalysedTests({"allof", "anyof"}) :
               /\ IhaveFailed(heap, x.path)
                      <=> \E q \in TestsOf(x) : IhaveFailed(heap, q)
               /\ \A q \in TestsOf(x) :
                      AddedExtensions(heap, q)
                          \subseteq AddedExtensions(heap, x.path)
        /\ \A x \in AnalysedTests({"not"}) : ~IhaveFailed(heap, x.path)
        /\ \A x \in Analysed({"if", "elsif"}) :
               x.node.hasBlock
               => (IhaveFailed(heap, BlockOf(x.path))
                      <=> \E q \in TestsOf(x) : IhaveFailed(heap, q))

\* The allof of the if is ihave-failed through its second sub-test and
\* has the extension its first added, the if's block is ihave-failed, and
\* the not of the elsif and the elsif's block are not, though the ihave
\* under the not is.
C25_Witness ==
    /\ Done
    /\ script = AllofThenNot
    /\ IhaveFailed(heap, <<1, 0, -1>>)
    /\ ~IhaveFailed(heap, <<1, 0, -1, 0, -1>>)
    /\ IhaveFailed(heap, <<1, 0, -1, 0, -2>>)
    /\ "fileinto" \in AddedExtensions(heap, <<1, 0, -1>>)
    /\ IhaveFailed(heap, <<1, -1>>)
    /\ IhaveFailed(heap, <<2, 0, -1, 0, -1>>)
    /\ ~IhaveFailed(heap, <<2, 0, -1>>)
    /\ ~IhaveFailed(heap, <<2, -1>>)


\* C26: every extension name registered as needed during the analysis is
\* one of the supported extensions, so that a require of it is accepted:
\* `require ["enotify"]; notify "mailto:user@example.org";` ends the
\* analysis without error.
C26_NeededExtensionsAreSupported ==
    Done =>
        /\ \A n \in heap.needed : n[2] \in heap.supported
        /\ script = RequiredNotify => heap.error = <<>>


\* C27: takeArgument(n) returns the n-th numbered argument when there are
\* at least n, null otherwise, and changes no parsed flag and no error.
C27_TakeArgumentReturnsNth ==
    LastWas("takeArgument") =>
        /\ lastCall[3] = NthOf(Numbered(heapB, ArgsList), lastCall[2])
        /\ heap.parsed = heapB.parsed
        /\ heap.error = heapB.error

====
